---- MODULE Spec2Model ----
(***************************************************************************)
(* A model of the auteur.one timeline editor: the clip/take state kept by  *)
(* the Editor component (frontend/app/page.tsx), its placement and take     *)
(* operations, and the AudioEngine's playback and recording state.         *)
(*                                                                         *)
(* Time is counted in half seconds: 1 is 0.5 s, 4 is 2 s, 8 is 4 s.  Ids    *)
(* are positive integers, drawn fresh from a counter where the code draws  *)
(* them from Math.random; NoId stands for null / undefined.                *)
(***************************************************************************)
EXTENDS Integers, Sequences, FiniteSets, TLC

VARIABLES
    tracks,          \* Track[]   (useState, page.tsx:23)
    clips,           \* Clip[]    (useState, page.tsx:24)
    currentTime,     \* playhead  (useState, page.tsx:27)
    selectedClipId,  \* page.tsx:30
    dragging,        \* the open drag session, page.tsx:35
    nextId,          \* the ids handed out so far (clips and takes)
    isRecording,     \* the Record/Stop button's state, page.tsx:34
    pending,         \* takes being decoded: stopRecording / uploadTake past their first await
    recordingClip,   \* the clipId the page's startRecording was last called with
    engine,          \* which AudioEngine is built in: lib/audio-engine.ts or its refactoring
    nextHandle,      \* the playClip / startRecording calls made so far
    isPlaying,       \* page.tsx:28
    nodes,           \* AudioEngine.nodes / activeNodes: clip id -> source node
    playing,         \* the source nodes started and not yet stopped or run out
    calls,           \* playClip calls waiting for their decode
    ended,           \* 'ended' events dispatched to an onended handler, not yet handled
    acquiring,       \* startRecording calls waiting for getUserMedia
    liveStreams,     \* the microphone streams acquired whose tracks are not stopped
    mediaRecorder,   \* AudioEngine.mediaRecorder / recordingState
    recorders,       \* the MediaRecorders in state 'recording'
    recordedChunks,  \* the length of AudioEngine.recordedChunks / recordingState.chunks
    stopping,        \* the recorders stopped whose 'stop' event is not yet handled
    rippleMode,      \* ripple edit mode (useState, page.tsx:40)
    isExporting,     \* page.tsx:31
    frameRequested,  \* requestRef holds an animation frame that is not cancelled
    loaded,          \* VideoExporter.loaded
    exportRun,       \* the export action under way: its phase, frames and outputs
    now,             \* the clock of the animation frames, in frame intervals
    lastTime,        \* lastTimeRef (page.tsx:48)
    op               \* the operation that last changed or queried the clips, if the last step did

editVars == <<tracks, clips, currentTime, selectedClipId, dragging, nextId>>
takeVars == <<isRecording, pending, recordingClip>>
audioVars == <<isPlaying, nodes, playing, calls, ended>>
recVars == <<acquiring, liveStreams, mediaRecorder, recorders, recordedChunks, stopping>>
engineVars == <<engine, nextHandle, audioVars, recVars>>
clockVars == <<now, lastTime>>
exportVars == <<isExporting, frameRequested, loaded, exportRun, clockVars>>
\* what the timeline operations leave alone
nonEditVars == <<takeVars, engineVars, exportVars, rippleMode>>
vars == <<editVars, takeVars, engineVars, exportVars, rippleMode, op>>

----------------------------------------------------------------------------
(* Bounds of the model *)

\* the timeline shown: clip intervals lie within [0, MaxTime]
MaxTime == 4
\* the clips a project holds at most
MaxClips == 2
\* the playhead positions and drop positions tried: 0..MaxPlayhead
MaxPlayhead == 2
\* the ids handed out in a run of the take operations at most
MaxIds == 4
\* the playClip and startRecording calls made in a run at most
MaxHandles == 3
\* the chunks counted in a recording at most
MaxChunks == 1

(* Program constants, in half seconds *)
NoId == 0
MIN_DURATION == 1
DIALOGUE_DURATION == 4
DEFAULT_CLIP_DURATION == 8

----------------------------------------------------------------------------
(* Values *)

Max(a, b) == IF a >= b THEN a ELSE b

\* a track; policy "none" is a track without rules
Track(id, type, order, policy) ==
    [id |-> id, type |-> type, order |-> order, mute |-> FALSE, policy |-> policy]

\* createProject() without a template
BlankTracks ==
    << Track("t_d1", "dialogue", 0, "disallow"),
       Track("t_v1", "video", 1, "none"),
       Track("t_a1", "audio", 2, "none") >>

NewClip(id, trackId, type, start, duration) ==
    [id |-> id, trackId |-> trackId, type |-> type, start |-> start,
     duration |-> duration, takes |-> <<>>, activeTakeId |-> NoId]

NoDrag == [type |-> "none", clipId |-> NoId, originalStart |-> 0, originalDuration |-> 0]

Op(name, clipId, arg, before) ==
    [name |-> name, clipId |-> clipId, arg |-> arg, before |-> before]

\* op after a step that changes no clip
Idle == Op("idle", NoId, 0, <<>>)

\* Array.prototype.find by id: the index of the first match, 0 when none
IndexOf(seq, id) ==
    IF \E i \in 1..Len(seq) : seq[i].id = id
    THEN CHOOSE i \in 1..Len(seq) : seq[i].id = id /\ \A j \in 1..(i-1) : seq[j].id # id
    ELSE 0

Has(seq, id) == IndexOf(seq, id) # 0
Find(seq, id) == seq[IndexOf(seq, id)]

\* the two AudioEngine classes of the repository
Engines == {"original", "refactored"}
\* the keys the engine's node map can hold
ClipIds == 1..MaxIds

\* a fresh AudioEngine e after init(), in an editor that is neither playing nor recording
EngineIdle(e) ==
    /\ engine = e
    /\ nextHandle = 0
    /\ isPlaying = FALSE
    /\ nodes = [c \in ClipIds |-> NoId]
    /\ playing = {}
    /\ calls = {}
    /\ ended = {}
    /\ acquiring = {}
    /\ liveStreams = {}
    /\ mediaRecorder = NoId
    /\ recorders = {}
    /\ recordedChunks = 0
    /\ stopping = {}

\* no export action under way; progress is the page's exportProgress, the pair
\* <<num, den>> for num / den percent
NoExport == [phase |-> "idle", duration |-> 0, fps |-> 0, composited |-> <<>>,
             frames |-> <<>>, video |-> "none", subtitles |-> "none", stem |-> "none",
             progress |-> <<0, 1>>]

\* an editor with a project that is not exporting: the animation loop has a frame
\* requested, the exporter has not loaded FFmpeg yet
ExportIdle ==
    /\ isExporting = FALSE
    /\ frameRequested = TRUE
    /\ loaded = FALSE
    /\ exportRun = NoExport
    /\ now = 1
    /\ lastTime = 0

----------------------------------------------------------------------------
(* Placement engine *)

\* a scan that compares both ends of the candidate with the other clip's start
SomeOverlapMissesInside(cs, trackId, clipId, newStart, newDuration) ==
    LET newEnd == newStart + newDuration
    IN  \E i \in 1..Len(cs) :
            /\ cs[i].trackId = trackId
            /\ cs[i].id # clipId
            /\ ~(newEnd <= cs[i].start \/ newStart >= cs[i].start)

\* the scan of checkOverlap: some other clip of the track intersects [newStart, newEnd)
SomeOverlap(cs, trackId, clipId, newStart, newDuration) ==
    LET newEnd == newStart + newDuration
    IN  \E i \in 1..Len(cs) :
            /\ cs[i].trackId = trackId
            /\ cs[i].id # clipId
            /\ ~(newEnd <= cs[i].start \/ newStart >= cs[i].start + cs[i].duration)

\* a checkOverlap that scans under every policy, allow included
checkOverlapIgnoresAllow(clipId, newStart, newDuration) ==
    IF ~Has(clips, clipId) THEN FALSE
    ELSE LET clip == Find(clips, clipId)
         IN  IF ~Has(tracks, clip.trackId) THEN FALSE
             ELSE LET track == Find(tracks, clip.trackId)
                  IN  IF track.policy = "none" THEN FALSE
                      ELSE SomeOverlap(clips, clip.trackId, clipId, newStart, newDuration)

\* checkOverlap of the editor, over its clips and tracks
checkOverlap(clipId, newStart, newDuration) ==
    IF ~Has(clips, clipId) THEN FALSE
    ELSE LET clip == Find(clips, clipId)
         IN  IF ~Has(tracks, clip.trackId) THEN FALSE
             ELSE LET track == Find(tracks, clip.trackId)
                  IN  IF track.policy = "none" \/ track.policy = "allow" THEN FALSE
                      ELSE SomeOverlap(clips, clip.trackId, clipId, newStart, newDuration)

\* updateClip(id, field, value) for the two timing fields
SetStart(cs, id, value) ==
    [i \in 1..Len(cs) |-> IF cs[i].id = id THEN [cs[i] EXCEPT !.start = value] ELSE cs[i]]

SetDuration(cs, id, value) ==
    [i \in 1..Len(cs) |-> IF cs[i].id = id THEN [cs[i] EXCEPT !.duration = value] ELSE cs[i]]

----------------------------------------------------------------------------
(* Drag session *)

\* pressing on a clip (move) or on its right handle (resize)
handleTimelineMouseDown(id, type) ==
    /\ Has(clips, id)
    /\ dragging' = [type |-> type, clipId |-> id,
                    originalStart |-> Find(clips, id).start,
                    originalDuration |-> Find(clips, id).duration]
    /\ selectedClipId' = id
    /\ op' = Op("handleTimelineMouseDown", id, 0, <<>>)
    /\ UNCHANGED <<tracks, clips, currentTime, nextId>>
    /\ UNCHANGED nonEditVars

\* a move candidate without the floor at 0
MoveCandidateUnclamped(deltaSec) == dragging.originalStart + deltaSec

\* the candidate of a move event and of a resize event
MoveCandidate(deltaSec) == Max(0, dragging.originalStart + deltaSec)
ResizeCandidate(deltaSec) == Max(MIN_DURATION, dragging.originalDuration + deltaSec)

\* what a pointer event at deltaSec from the press makes of the clips
DragResult(deltaSec) ==
    IF ~Has(clips, dragging.clipId) THEN clips
    ELSE LET clip == Find(clips, dragging.clipId)
         IN  IF dragging.type = "move"
             THEN IF ~checkOverlap(dragging.clipId, MoveCandidate(deltaSec), clip.duration)
                  THEN SetStart(clips, dragging.clipId, MoveCandidate(deltaSec))
                  ELSE clips
             ELSE IF ~checkOverlap(dragging.clipId, clip.start, ResizeCandidate(deltaSec))
                  THEN SetDuration(clips, dragging.clipId, ResizeCandidate(deltaSec))
                  ELSE clips

\* the pointer stays over the timeline shown: no clip is dragged or stretched past it
InView(cs) ==
    \A i \in 1..Len(cs) :
        cs[i].id = dragging.clipId =>
            \/ cs[i].start + cs[i].duration <= MaxTime
            \/ cs[i] = Find(clips, dragging.clipId)

handleMouseMove(deltaSec) ==
    /\ dragging.type # "none"
    /\ InView(DragResult(deltaSec))
    /\ clips' = DragResult(deltaSec)
    /\ op' = Op("handleMouseMove", dragging.clipId, deltaSec, <<>>)
    /\ UNCHANGED <<tracks, currentTime, selectedClipId, dragging, nextId>>
    /\ UNCHANGED nonEditVars

\* a release that leaves the session open
handleMouseUpKeepsSession ==
    /\ dragging.type # "none"
    /\ op' = Op("handleMouseUp", dragging.clipId, 0, <<>>)
    /\ UNCHANGED <<tracks, clips, currentTime, selectedClipId, dragging, nextId>>
    /\ UNCHANGED nonEditVars

handleMouseUp ==
    /\ dragging.type # "none"
    /\ dragging' = NoDrag
    /\ op' = Op("handleMouseUp", dragging.clipId, 0, <<>>)
    /\ UNCHANGED <<tracks, clips, currentTime, selectedClipId, nextId>>
    /\ UNCHANGED nonEditVars

Deltas == (0 - MaxTime)..MaxTime

DragNext ==
    \/ \E i \in 1..Len(clips), type \in {"move", "resize"} :
          handleTimelineMouseDown(clips[i].id, type)
    \/ \E d \in Deltas : handleMouseMove(d)
    \/ handleMouseUp

\* no two clips of a track that forbids overlap intersect
Forbids(trackId) ==
    /\ Has(tracks, trackId)
    /\ Find(tracks, trackId).policy \notin {"none", "allow"}

Intersect(a, b) == a.start < b.start + b.duration /\ b.start < a.start + a.duration

NoOverlap(cs) ==
    \A i, j \in 1..Len(cs) :
        (i # j /\ cs[i].trackId = cs[j].trackId /\ Forbids(cs[i].trackId))
            => ~Intersect(cs[i], cs[j])

\* the placements of one clip on the timeline shown
Placements == {p \in (0..MaxTime) \X (MIN_DURATION..MaxTime) : p[1] + p[2] <= MaxTime}

\* three clips, two on the dialogue track and one on either track, none overlapping
\* where overlap is forbidden
DragLayouts ==
    {cs \in {<< NewClip(1, "t_d1", "dialogue", p1[1], p1[2]),
                NewClip(2, "t_d1", "dialogue", p2[1], p2[2]),
                NewClip(3, t3, "video", p3[1], p3[2]) >> :
                  p1 \in Placements, p2 \in Placements, p3 \in Placements,
                  t3 \in {"t_d1", "t_v1"}} : NoOverlap(cs)}

DragInit ==
    /\ tracks = BlankTracks
    /\ clips \in DragLayouts
    /\ currentTime = 0
    /\ selectedClipId = NoId
    /\ dragging = NoDrag
    /\ nextId = 3
    /\ isRecording = FALSE
    /\ pending = {}
    /\ recordingClip = NoId
    /\ EngineIdle("original")
    /\ ExportIdle
    /\ rippleMode = FALSE
    /\ op = Op("init", NoId, 0, <<>>)

DragSpec == DragInit /\ [][DragNext]_vars

----------------------------------------------------------------------------
(* C1: on a track that forbids overlap, drag sessions started from a        *)
(* non-intersecting layout never make two clips intersect; clips may touch. *)
C1_DragKeepsNoOverlap == NoOverlap(clips)

\* an accepted move has put a clip end to end with a neighbour on the dialogue track
C1_Witness ==
    /\ op.name = "handleMouseMove"
    /\ dragging.type = "move"
    /\ Has(clips, dragging.clipId)
    /\ Find(clips, dragging.clipId).start # dragging.originalStart
    /\ Find(clips, dragging.clipId).trackId = "t_d1"
    /\ \E i \in 1..Len(clips) :
          /\ clips[i].id # dragging.clipId
          /\ clips[i].trackId = "t_d1"
          /\ clips[i].start + clips[i].duration = Find(clips, dragging.clipId).start

----------------------------------------------------------------------------
(* Editor actions on the timeline *)

\* the playhead as the preview loop or the transport buttons leave it
setCurrentTime(t) ==
    /\ currentTime' = t
    /\ op' = Idle
    /\ UNCHANGED <<tracks, clips, selectedClipId, dragging, nextId>>
    /\ UNCHANGED nonEditVars

setSelectedClipId(id) ==
    /\ selectedClipId' = id
    /\ op' = Idle
    /\ UNCHANGED <<tracks, clips, currentTime, dragging, nextId>>
    /\ UNCHANGED nonEditVars

\* "Add Dialogue" on a track header: a 2 s dialogue clip at the playhead
addDialogueClip(trackId) ==
    /\ Len(clips) < MaxClips
    /\ Has(tracks, trackId)
    /\ Find(tracks, trackId).type = "dialogue"
    /\ clips' = Append(clips, NewClip(nextId + 1, trackId, "dialogue", currentTime,
                                      DIALOGUE_DURATION))
    /\ selectedClipId' = nextId + 1
    /\ nextId' = nextId + 1
    /\ op' = Op("addDialogueClip", nextId + 1, currentTime, <<>>)
    /\ UNCHANGED <<tracks, currentTime, dragging>>
    /\ UNCHANGED nonEditVars

\* the clip type a dropped file gets from its MIME type
ClipTypeOf(mime) ==
    IF mime = "image" THEN "picture"
    ELSE IF mime = "audio" THEN "audio"
    ELSE "video"

\* one file dropped on a track row at a time
handleFileDrop(trackId, time, mime) ==
    /\ Len(clips) < MaxClips
    /\ Has(tracks, trackId)
    /\ clips' = Append(clips, NewClip(nextId + 1, trackId, ClipTypeOf(mime), time,
                                      DEFAULT_CLIP_DURATION))
    /\ nextId' = nextId + 1
    /\ op' = Op("handleFileDrop", nextId + 1, time, <<>>)
    /\ UNCHANGED <<tracks, currentTime, selectedClipId, dragging>>
    /\ UNCHANGED nonEditVars

\* the Start and Duration inputs of the properties panel, on the selected clip
PanelSetStart(value) ==
    /\ Has(clips, selectedClipId)
    /\ clips' = SetStart(clips, selectedClipId, value)
    /\ op' = Op("PanelSetStart", selectedClipId, value, <<>>)
    /\ UNCHANGED <<tracks, currentTime, selectedClipId, dragging, nextId>>
    /\ UNCHANGED nonEditVars

PanelSetDuration(value) ==
    /\ Has(clips, selectedClipId)
    /\ clips' = SetDuration(clips, selectedClipId, value)
    /\ op' = Op("PanelSetDuration", selectedClipId, value, <<>>)
    /\ UNCHANGED <<tracks, currentTime, selectedClipId, dragging, nextId>>
    /\ UNCHANGED nonEditVars

\* the two clips splitClip makes of clip at the playhead t: the head keeps the id
SplitHead(clip, t) == [clip EXCEPT !.duration = t - clip.start]
SplitTailFullDuration(clip, t, newId) == [clip EXCEPT !.id = newId, !.start = t]
SplitTail(clip, t, newId) ==
    [clip EXCEPT !.id = newId, !.start = t, !.duration = clip.duration - (t - clip.start)]

splitClip ==
    /\ Len(clips) < MaxClips
    /\ selectedClipId # NoId
    /\ Has(clips, selectedClipId)
    /\ LET clip == Find(clips, selectedClipId)
       IN  /\ ~(currentTime <= clip.start \/ currentTime >= clip.start + clip.duration)
           /\ clips' = Append(SetDuration(clips, clip.id, SplitHead(clip, currentTime).duration),
                              SplitTail(clip, currentTime, nextId + 1))
    /\ nextId' = nextId + 1
    /\ op' = Op("splitClip", selectedClipId, currentTime, clips)
    /\ UNCHANGED <<tracks, currentTime, selectedClipId, dragging>>
    /\ UNCHANGED nonEditVars

\* what a user can type into a timing input
PanelValues == {0 - 1, 0, 1}
Mimes == {"audio", "other"}

Init ==
    /\ tracks = BlankTracks
    /\ clips = <<>>
    /\ currentTime = 0
    /\ selectedClipId = NoId
    /\ dragging = NoDrag
    /\ nextId = 0
    /\ isRecording = FALSE
    /\ pending = {}
    /\ recordingClip = NoId
    /\ EngineIdle("original")
    /\ ExportIdle
    /\ rippleMode = FALSE
    /\ op = Op("init", NoId, 0, <<>>)

Next ==
    \/ \E t \in 0..MaxPlayhead : setCurrentTime(t)
    \/ \E i \in 1..Len(clips) : setSelectedClipId(clips[i].id)
    \/ \E i \in 1..Len(tracks) : addDialogueClip(tracks[i].id)
    \/ \E i \in 1..Len(tracks), t \in 0..MaxPlayhead, m \in Mimes :
          handleFileDrop(tracks[i].id, t, m)
    \/ \E v \in PanelValues : PanelSetStart(v)
    \/ \E v \in PanelValues : PanelSetDuration(v)
    \/ splitClip

Spec == Init /\ [][Next]_vars

----------------------------------------------------------------------------
(* C2: in every reachable editor state no two clips of a track whose rules  *)
(* forbid overlap have intersecting intervals.                              *)
C2_NoOverlapEver == NoOverlap(clips)

----------------------------------------------------------------------------
(* checkOverlap and checkClipOverlap as functions of their arguments *)

\* checkClipOverlap(clip, newStart, newDuration, allClips, tracks) of lib/validation.ts
checkClipOverlap(clip, newStart, newDuration, allClips, trks) ==
    IF ~Has(trks, clip.trackId) THEN FALSE
    ELSE LET track == Find(trks, clip.trackId)
         IN  IF track.policy = "none" \/ track.policy = "allow" THEN FALSE
             ELSE SomeOverlap(allClips, clip.trackId, clip.id, newStart, newDuration)

\* each behaviour draws its inputs and applies one of the two functions to them once
CallCheckOverlap(clipId, newStart, newDuration) ==
    /\ op.name = "init"
    /\ op' = Op("checkOverlap", clipId, <<newStart, newDuration>>,
                checkOverlap(clipId, newStart, newDuration))
    /\ UNCHANGED editVars
    /\ UNCHANGED nonEditVars

CallCheckClipOverlap(clipId, newStart, newDuration) ==
    /\ op.name = "init"
    /\ Has(clips, clipId)
    /\ op' = Op("checkClipOverlap", clipId, <<newStart, newDuration>>,
                checkClipOverlap(Find(clips, clipId), newStart, newDuration, clips, tracks))
    /\ UNCHANGED editVars
    /\ UNCHANGED nonEditVars

Policies == {"none", "allow", "disallow", "push", "trim"}

\* the blank project's tracks with the dialogue track's rules set to policy
TracksWith(policy) ==
    [i \in 1..Len(BlankTracks) |->
        IF BlankTracks[i].id = "t_d1" THEN [BlankTracks[i] EXCEPT !.policy = policy]
        ELSE BlankTracks[i]]

\* clip A at [0, 5 s) on the dialogue track, and a second clip B to be placed
ScenarioA == << NewClip(1, "t_d1", "dialogue", 0, 10), NewClip(2, "t_d1", "dialogue", 12, 4) >>

OverlapLayouts ==
    {<< NewClip(1, "t_d1", "dialogue", p1[1], p1[2]),
        NewClip(2, t2, "dialogue", p2[1], p2[2]),
        NewClip(3, "t_d1", "dialogue", p3[1], p3[2]) >> :
          p1 \in Placements, p2 \in Placements, p3 \in {<<0, 1>>, <<MaxTime - 1, 1>>},
          t2 \in {"t_d1", "t_v1"}}
    \cup {ScenarioA}

\* the candidates tried: every placement shown, and B at [3 s, 6 s) and at [5 s, 8 s)
OverlapArgs == Placements \cup {<<6, 6>>, <<10, 6>>}

OverlapInit ==
    /\ \E policy \in Policies : tracks = TracksWith(policy)
    /\ clips \in OverlapLayouts
    /\ currentTime = 0
    /\ selectedClipId = NoId
    /\ dragging = NoDrag
    /\ nextId = 3
    /\ isRecording = FALSE
    /\ pending = {}
    /\ recordingClip = NoId
    /\ EngineIdle("original")
    /\ ExportIdle
    /\ rippleMode = FALSE
    /\ op = Op("init", NoId, 0, <<>>)

OverlapNext ==
    \/ \E i \in 1..Len(clips), a \in OverlapArgs : CallCheckOverlap(clips[i].id, a[1], a[2])
    \/ \E i \in 1..Len(clips), a \in OverlapArgs : CallCheckClipOverlap(clips[i].id, a[1], a[2])

OverlapSpec == OverlapInit /\ [][OverlapNext]_vars

\* the result the claim gives for the candidate [newStart, newStart + newDuration) of clip
ClaimedOverlap(clip, newStart, newDuration) ==
    LET track == Find(tracks, clip.trackId)
    IN  IF track.policy \in {"none", "allow"} THEN FALSE
        ELSE \E i \in 1..Len(clips) :
                /\ clips[i].id # clip.id
                /\ clips[i].trackId = clip.trackId
                /\ newStart < clips[i].start + clips[i].duration
                /\ newStart + newDuration > clips[i].start

(* C3: checkOverlap is false on a track without rules or with policy allow;  *)
(* otherwise it is true exactly when some other clip of the track has        *)
(* newStart < other.start + other.duration and newStart + newDuration >     *)
(* other.start, so touching a neighbour's endpoint is no overlap.            *)
C3_CheckOverlapValue ==
    op.name \in {"checkOverlap", "checkClipOverlap"} =>
        op.before = ClaimedOverlap(Find(clips, op.clipId), op.arg[1], op.arg[2])

\* scenario A: with A at [0, 5 s), B at [5 s, 8 s) touches A and is no overlap
C3_Witness ==
    /\ op.name = "checkOverlap"
    /\ clips = ScenarioA
    /\ Find(tracks, "t_d1").policy = "disallow"
    /\ op.clipId = 2
    /\ op.arg = <<10, 6>>
    /\ op.before = FALSE

----------------------------------------------------------------------------
(* Takes of a dialogue clip *)

NewTake(id, duration) == [id |-> id, duration |-> duration]

\* the setClips update that stopRecording and uploadTake end with
AppendTake(cs, clipId, take) ==
    [i \in 1..Len(cs) |->
        IF cs[i].id = clipId
        THEN [cs[i] EXCEPT !.takes = Append(cs[i].takes, take),
                           !.activeTakeId = take.id,
                           !.duration = take.duration]
        ELSE cs[i]]

\* updateClip(id, "activeTakeId", value)
SetActiveTake(cs, id, value) ==
    [i \in 1..Len(cs) |-> IF cs[i].id = id THEN [cs[i] EXCEPT !.activeTakeId = value] ELSE cs[i]]

\* takes.filter(t => t.id !== takeId)
WithoutTake(takes, takeId) == SelectSeq(takes, LAMBDA t : t.id # takeId)

\* a deleteTake that never touches activeTakeId
ActiveAfterDeleteStale(clip, takeId, remaining) == clip.activeTakeId

\* a deleteTake that falls back to the newest remaining take
ActiveAfterDeleteLast(clip, takeId, remaining) ==
    IF clip.activeTakeId = takeId
    THEN (IF Len(remaining) > 0 THEN remaining[Len(remaining)].id ELSE NoId)
    ELSE clip.activeTakeId

\* the activeTakeId deleteTake leaves, given the takes that remain
ActiveAfterDelete(clip, takeId, remaining) ==
    IF clip.activeTakeId = takeId
    THEN (IF Len(remaining) > 0 THEN remaining[1].id ELSE NoId)
    ELSE clip.activeTakeId

\* the duration of the active take of clip, the clip's own when it has none
ActiveDuration(clip) ==
    IF Has(clip.takes, clip.activeTakeId) THEN Find(clip.takes, clip.activeTakeId).duration
    ELSE clip.duration

\* a deleteTake that also sets the duration to that of the take left active
DeleteTakeInResetsDuration(cs, clipId, takeId) ==
    [i \in 1..Len(cs) |->
        IF cs[i].id = clipId
        THEN LET c == [cs[i] EXCEPT !.takes = WithoutTake(cs[i].takes, takeId),
                                    !.activeTakeId =
                                        ActiveAfterDelete(cs[i], takeId,
                                                          WithoutTake(cs[i].takes, takeId))]
             IN  [c EXCEPT !.duration = ActiveDuration(c)]
        ELSE cs[i]]

DeleteTakeIn(cs, clipId, takeId) ==
    [i \in 1..Len(cs) |->
        IF cs[i].id = clipId
        THEN [cs[i] EXCEPT !.takes = WithoutTake(cs[i].takes, takeId),
                           !.activeTakeId =
                               ActiveAfterDelete(cs[i], takeId, WithoutTake(cs[i].takes, takeId))]
        ELSE cs[i]]

SelectedIsDialogue ==
    /\ Has(clips, selectedClipId)
    /\ Find(clips, selectedClipId).type = "dialogue"

\* the Record button: the page's startRecording, with the engine's answer as granted
startRecording(granted) ==
    /\ SelectedIsDialogue
    /\ ~isRecording
    /\ isRecording' = granted
    /\ recordingClip' = selectedClipId
    /\ op' = Idle
    /\ UNCHANGED <<editVars, pending, engineVars, exportVars, rippleMode>>

\* the Stop button: the page's stopRecording up to its awaits, for the clip selected
\* now; the engine either resolves with a blob, decoded later, or rejects
stopRecording(resolved, duration) ==
    /\ SelectedIsDialogue
    /\ isRecording
    /\ nextId + Cardinality(pending) < MaxIds
    /\ IF resolved
       THEN /\ pending' = pending \cup {[clipId |-> selectedClipId, duration |-> duration,
                                         source |-> "recording",
                                         startedOn |-> recordingClip]}
            /\ UNCHANGED isRecording
       ELSE /\ isRecording' = FALSE
            /\ UNCHANGED pending
    /\ op' = Idle
    /\ UNCHANGED <<editVars, recordingClip, engineVars, exportVars, rippleMode>>

\* the Upload input: uploadTake up to its awaits; a file that does not decode adds nothing
uploadTake(decodes, duration) ==
    /\ SelectedIsDialogue
    /\ nextId + Cardinality(pending) < MaxIds
    /\ pending' = IF decodes
                  THEN pending \cup {[clipId |-> selectedClipId, duration |-> duration,
                                      source |-> "upload", startedOn |-> selectedClipId]}
                  ELSE pending
    /\ op' = Idle
    /\ UNCHANGED <<editVars, isRecording, recordingClip, engineVars, exportVars, rippleMode>>

\* the rest of stopRecording / uploadTake once the blob is decoded: the new take is
\* appended to the clip the handler was called for and made its active take
TakeReady(p) ==
    /\ p \in pending
    /\ pending' = pending \ {p}
    /\ clips' = AppendTake(clips, p.clipId, NewTake(nextId + 1, p.duration))
    /\ nextId' = nextId + 1
    /\ isRecording' = IF p.source = "recording" THEN FALSE ELSE isRecording
    /\ op' = Op(p.source, p.clipId, nextId + 1, clips)
    /\ UNCHANGED <<tracks, currentTime, selectedClipId, dragging, recordingClip, engineVars,
                   exportVars, rippleMode>>

\* a click on a row of the takes list of the selected clip
selectTake(takeId) ==
    /\ SelectedIsDialogue
    /\ Has(Find(clips, selectedClipId).takes, takeId)
    /\ clips' = SetActiveTake(clips, selectedClipId, takeId)
    /\ op' = Op("selectTake", selectedClipId, takeId, clips)
    /\ UNCHANGED <<tracks, currentTime, selectedClipId, dragging, nextId, takeVars, engineVars, exportVars, rippleMode>>

\* the trash button of a row of the takes list of the selected clip
deleteTake(takeId) ==
    /\ SelectedIsDialogue
    /\ Has(Find(clips, selectedClipId).takes, takeId)
    /\ clips' = DeleteTakeIn(clips, selectedClipId, takeId)
    /\ op' = Op("deleteTake", selectedClipId, takeId, clips)
    /\ UNCHANGED <<tracks, currentTime, selectedClipId, dragging, nextId, takeVars, engineVars, exportVars, rippleMode>>

\* the durations a decoded take can have: 1 s and 1.5 s
TakeDurations == {2, 3}

\* splitClip while ids are left
splitClipT == nextId + Cardinality(pending) < MaxIds /\ splitClip

\* where the playhead is put before a split: 0.5 s and 1 s
SplitPoints == {1, 2}

TakeNext ==
    \/ \E t \in SplitPoints : setCurrentTime(t)
    \/ \E i \in 1..Len(clips) : setSelectedClipId(clips[i].id)
    \/ splitClipT
    \/ \E g \in BOOLEAN : startRecording(g)
    \/ \E r \in BOOLEAN, d \in TakeDurations : stopRecording(r, d)
    \/ \E r \in BOOLEAN, d \in TakeDurations : uploadTake(r, d)
    \/ \E p \in pending : TakeReady(p)
    \/ \E id \in 1..MaxIds : selectTake(id)
    \/ \E id \in 1..MaxIds : deleteTake(id)

\* a blank project after "Add Dialogue" at the playhead 0: one dialogue clip, selected
TakeInit ==
    /\ tracks = BlankTracks
    /\ clips = << NewClip(1, "t_d1", "dialogue", 0, DIALOGUE_DURATION) >>
    /\ currentTime = 0
    /\ selectedClipId = 1
    /\ dragging = NoDrag
    /\ nextId = 1
    /\ isRecording = FALSE
    /\ pending = {}
    /\ recordingClip = NoId
    /\ EngineIdle("original")
    /\ ExportIdle
    /\ rippleMode = FALSE
    /\ op = Op("addDialogueClip", 1, 0, <<>>)

TakeSpec == TakeInit /\ [][TakeNext]_vars

TakeIds(clip) == {clip.takes[k].id : k \in 1..Len(clip.takes)}

(* C5: after any sequence of take operations each clip's activeTakeId is     *)
(* absent or the id of a take in that clip's own takes list.                 *)
C5_ActiveTakeOwned ==
    \A i \in 1..Len(clips) :
        clips[i].activeTakeId = NoId \/ clips[i].activeTakeId \in TakeIds(clips[i])

\* the active take of a clip with two takes was deleted and the other took over
C5_Witness ==
    /\ op.name = "deleteTake"
    /\ Has(op.before, op.clipId)
    /\ Find(op.before, op.clipId).activeTakeId = op.arg
    /\ Len(Find(op.before, op.clipId).takes) = 2
    /\ Find(clips, op.clipId).activeTakeId # NoId

(* C4: splitClip at a playhead t inside the selected clip leaves the         *)
(* original with its id and start and duration t - start, and appends a     *)
(* clip with a fresh id, start t, duration originalEnd - t and every other  *)
(* field copied; the durations add up to the original one and the two       *)
(* intervals are adjacent and do not intersect.                             *)
C4_SplitClip ==
    op.name = "splitClip" =>
        LET orig == Find(op.before, op.clipId)
            t    == op.arg
            head == Find(clips, op.clipId)
            tail == clips[Len(clips)]
        IN  /\ orig.start < t /\ t < orig.start + orig.duration
            /\ Len(clips) = Len(op.before) + 1
            /\ head = [orig EXCEPT !.duration = t - orig.start]
            /\ ~Has(op.before, tail.id)
            /\ tail = [orig EXCEPT !.id = tail.id, !.start = t,
                                   !.duration = orig.start + orig.duration - t]
            /\ head.duration + tail.duration = orig.duration
            /\ head.start + head.duration = tail.start
            /\ ~Intersect(head, tail)
            /\ \A i \in 1..Len(op.before) :
                  op.before[i].id # op.clipId => clips[i] = op.before[i]

\* a dialogue clip that has a take was split
C4_Witness ==
    /\ op.name = "splitClip"
    /\ Len(Find(op.before, op.clipId).takes) > 0
    /\ Find(clips, op.clipId).duration = 1

(* C6: deleteTake removes exactly the take given and keeps the others in     *)
(* order; when that take was the active one, activeTakeId becomes the id of  *)
(* the first take left, or absent when none is left; otherwise it stays.    *)
C6_DeleteTake ==
    op.name = "deleteTake" =>
        LET old == Find(op.before, op.clipId)
            new == Find(clips, op.clipId)
            k   == IndexOf(old.takes, op.arg)
        IN  /\ Len(new.takes) = Len(old.takes) - 1
            /\ \A i \in 1..Len(new.takes) :
                  new.takes[i] = IF i < k THEN old.takes[i] ELSE old.takes[i + 1]
            /\ old.activeTakeId = op.arg /\ Len(new.takes) > 0
                  => new.activeTakeId = new.takes[1].id
            /\ old.activeTakeId = op.arg /\ Len(new.takes) = 0
                  => new.activeTakeId = NoId
            /\ old.activeTakeId # op.arg => new.activeTakeId = old.activeTakeId

\* the newest of three takes was active and deleted: the oldest is active now
C6_Witness ==
    /\ op.name = "deleteTake"
    /\ Len(Find(op.before, op.clipId).takes) = 3
    /\ Find(op.before, op.clipId).activeTakeId = op.arg
    /\ Find(op.before, op.clipId).takes[3].id = op.arg
    /\ Find(clips, op.clipId).activeTakeId = Find(op.before, op.clipId).takes[1].id

(* C7: whenever a take becomes the active take of a clip, by a finished      *)
(* recording, a finished upload or a click on it in the takes list, the     *)
(* clip's duration is that take's duration right afterwards.                *)
C7_ActiveTakeSetsDuration ==
    op.name \in {"recording", "upload", "selectTake"} =>
        LET clip == Find(clips, op.clipId)
        IN  /\ clip.activeTakeId = op.arg
            /\ clip.duration = Find(clip.takes, op.arg).duration

(* C8: deleteTake changes only the takes and the activeTakeId of its clip:   *)
(* every other field of it, its duration included, and every other clip     *)
(* stay as they were.                                                       *)
C8_DeleteTakeFrame ==
    op.name = "deleteTake" =>
        /\ Len(clips) = Len(op.before)
        /\ \A i \in 1..Len(clips) :
              IF op.before[i].id = op.clipId
              THEN clips[i] = [op.before[i] EXCEPT !.takes = clips[i].takes,
                                                   !.activeTakeId = clips[i].activeTakeId]
              ELSE clips[i] = op.before[i]

\* the active take of one of two clips was deleted; the take now active is of another
\* duration than the clip, which keeps its own
C8_Witness ==
    /\ op.name = "deleteTake"
    /\ Len(clips) = 2
    /\ Find(op.before, op.clipId).activeTakeId = op.arg
    /\ Find(clips, op.clipId).activeTakeId # NoId
    /\ ActiveDuration(Find(clips, op.clipId)) # Find(clips, op.clipId).duration

----------------------------------------------------------------------------
(* Playback: the audio sync of renderFrame and AudioEngine.playClip,         *)
(* stopNode and stopAll.  A frame's time is currentTime plus a fraction of   *)
(* half a second; nearStart says that the fraction is below 0.1 s.  A        *)
(* source node carries the number of the playClip call that created it.      *)

\* the length of the project's timeline
ProjectDuration == MaxPlayhead

\* renderFrame finds an audio source for the clip: the clip's active take
HasAudioSource(clip) == clip.activeTakeId # NoId /\ Has(clip.takes, clip.activeTakeId)

\* the clip is an audio or dialogue clip of a track that is not muted
Audible(clip) ==
    /\ clip.type \in {"audio", "dialogue"}
    /\ Has(tracks, clip.trackId) => ~Find(tracks, clip.trackId).mute

InRange(clip, time) == time >= clip.start /\ time < clip.start + clip.duration

\* the clips a frame at time calls playClip for, past playClip's guard
FramePlays(time, nearStart) ==
    {clips[i].id : i \in {j \in 1..Len(clips) :
        /\ Audible(clips[j]) /\ InRange(clips[j], time)
        /\ time = clips[j].start /\ nearStart
        /\ HasAudioSource(clips[j])}}

\* the clips a frame at time calls stopNode for
FrameStops(time) ==
    {clips[i].id : i \in {j \in 1..Len(clips) :
        Audible(clips[j]) /\ ~InRange(clips[j], time)}}

\* the playing sources that stopNode, called for the clip ids in ids, stops
StoppedBy(ids) == {s \in playing : s.clipId \in ids /\ nodes[s.clipId] = s.h}

\* the 'ended' events that reach a handler when the sources in ss stop: the
\* refactored engine alone sets source.onended
EndedEvents(ss) == IF engine = "refactored" THEN ss ELSE {}

\* the node map after stopNode for each clip id in ids
NodesWithout(ids) == [c \in ClipIds |-> IF c \in ids THEN NoId ELSE nodes[c]]

Rank(c, ids) == Cardinality({d \in ids : d <= c})

\* renderFrame's audio sync: while playing, playClip (stopNode, then the decode is
\* awaited) for the clips that start now and stopNode for those out of range;
\* stopAll otherwise
renderFrame(time, nearStart) ==
    IF isPlaying
    THEN LET plays == FramePlays(time, nearStart)
             stops == plays \cup FrameStops(time)
         IN  /\ nextHandle + Cardinality(plays) <= MaxHandles
             /\ nodes' = NodesWithout(stops)
             /\ playing' = playing \ StoppedBy(stops)
             /\ ended' = ended \cup EndedEvents(StoppedBy(stops))
             /\ calls' = calls \cup {[clipId |-> c, h |-> nextHandle + Rank(c, plays)] :
                                        c \in plays}
             /\ nextHandle' = nextHandle + Cardinality(plays)
    ELSE LET stops == {c \in ClipIds : nodes[c] # NoId}
         IN  /\ nodes' = NodesWithout(stops)
             /\ playing' = playing \ StoppedBy(stops)
             /\ ended' = ended \cup EndedEvents(StoppedBy(stops))
             /\ UNCHANGED <<calls, nextHandle>>

\* an animation frame whose playhead runs on past the end of the project
animateNoWrap(delta, nearStart) ==
    LET newTime == IF ~isPlaying THEN currentTime ELSE currentTime + delta
    IN  /\ frameRequested
        /\ currentTime' = newTime
        /\ renderFrame(newTime, nearStart)
        /\ op' = Idle
        /\ UNCHANGED <<tracks, clips, selectedClipId, dragging, nextId, takeVars,
                       engine, isPlaying, recVars, exportVars, rippleMode>>

\* one animation frame, when one is requested: the playhead advances by delta while
\* playing and wraps at the end of the project; the frame is rendered at the new
\* time and the next frame is requested
animate(delta, nearStart) ==
    LET newTime == IF ~isPlaying THEN currentTime
                   ELSE IF currentTime + delta > ProjectDuration THEN 0
                   ELSE currentTime + delta
    IN  /\ frameRequested
        /\ currentTime' = newTime
        /\ renderFrame(newTime, nearStart)
        /\ op' = Idle
        /\ UNCHANGED <<tracks, clips, selectedClipId, dragging, nextId, takeVars,
                       engine, isPlaying, recVars, exportVars, rippleMode>>

\* the Play / Pause button
handleTogglePlay ==
    /\ isPlaying' = ~isPlaying
    /\ op' = Idle
    /\ UNCHANGED <<editVars, takeVars, engine, nextHandle, nodes, playing, calls, ended,
                   recVars, exportVars, rippleMode>>

\* the mute button of a track header
toggleMute(trackId) ==
    /\ Has(tracks, trackId)
    /\ tracks' = [i \in 1..Len(tracks) |->
                    IF tracks[i].id = trackId
                    THEN [tracks[i] EXCEPT !.mute = ~tracks[i].mute] ELSE tracks[i]]
    /\ op' = Idle
    /\ UNCHANGED <<clips, currentTime, selectedClipId, dragging, nextId, nonEditVars>>

\* the rest of playClip once the buffer is decoded: the source is created, put
\* into the map under the clip id and started
DecodeDone(call) ==
    /\ call \in calls
    /\ calls' = calls \ {call}
    /\ nodes' = [nodes EXCEPT ![call.clipId] = call.h]
    /\ playing' = playing \cup {call}
    /\ op' = Idle
    /\ UNCHANGED <<editVars, takeVars, engine, nextHandle, isPlaying, ended, recVars, exportVars, rippleMode>>

\* the decode rejects: playClip ends without a source
DecodeFailed(call) ==
    /\ call \in calls
    /\ calls' = calls \ {call}
    /\ op' = Idle
    /\ UNCHANGED <<editVars, takeVars, engine, nextHandle, isPlaying, nodes, playing, ended,
                   recVars, exportVars, rippleMode>>

\* a playing source reaches the end of its buffer
SourceRunsOut(s) ==
    /\ s \in playing
    /\ playing' = playing \ {s}
    /\ ended' = ended \cup EndedEvents({s})
    /\ op' = Idle
    /\ UNCHANGED <<editVars, takeVars, engine, nextHandle, isPlaying, nodes, calls, recVars, exportVars, rippleMode>>

\* source.onended of the refactored engine: stopNode for the clip id of the source
onended(s) ==
    /\ s \in ended
    /\ nodes' = NodesWithout({s.clipId})
    /\ playing' = playing \ StoppedBy({s.clipId})
    /\ ended' = (ended \ {s}) \cup EndedEvents(StoppedBy({s.clipId}))
    /\ op' = Idle
    /\ UNCHANGED <<editVars, takeVars, engine, nextHandle, isPlaying, calls, recVars, exportVars, rippleMode>>

\* the steps the playhead takes between two frames: none or half a second
Deltas01 == {0, 1}

AudioNext ==
    \/ handleTogglePlay
    \/ \E d \in Deltas01, n \in BOOLEAN : animate(d, n)
    \/ setCurrentTime(0)
    \/ \E i \in 1..Len(tracks) : toggleMute(tracks[i].id)
    \/ \E c \in calls : DecodeDone(c)
    \/ \E c \in calls : DecodeFailed(c)
    \/ \E s \in playing : SourceRunsOut(s)
    \/ \E s \in ended : onended(s)

\* a dialogue clip with a recorded take as its active take
RecordedClip(id, start, duration, takeId) ==
    [NewClip(id, "t_d1", "dialogue", start, duration)
        EXCEPT !.takes = << NewTake(takeId, duration) >>, !.activeTakeId = takeId]

\* a project with two recorded dialogue clips, one after the other, not playing
AudioInit ==
    /\ tracks = BlankTracks
    /\ clips = << RecordedClip(1, 0, 2, 3), RecordedClip(2, 2, 2, 4) >>
    /\ currentTime = 0
    /\ selectedClipId = NoId
    /\ dragging = NoDrag
    /\ nextId = 4
    /\ isRecording = FALSE
    /\ pending = {}
    /\ recordingClip = NoId
    /\ \E e \in Engines : EngineIdle(e)
    /\ ExportIdle
    /\ rippleMode = FALSE
    /\ op = Idle

AudioSpec == AudioInit /\ [][AudioNext]_vars

(* C9: at any time at most one playback source is started and not yet        *)
(* stopped for a clip id, whatever the interleaving of the playClip calls    *)
(* of successive frames with their decodes.                                 *)
C9_OneSourcePerClip ==
    \A s1 \in playing, s2 \in playing : s1.clipId = s2.clipId => s1 = s2

----------------------------------------------------------------------------
(* Recording: the page's startRecording / stopRecording with the engine's    *)
(* calls spelled out.  A stream and the MediaRecorder made for it carry the  *)
(* number of the startRecording call that acquired the stream; the original  *)
(* engine's stream field always names the stream of its mediaRecorder.       *)

\* the Record button with AudioEngine.startRecording up to its await: the page sets
\* isRecording; the refactored engine returns when it has a recordingState, otherwise
\* the microphone is asked for
engineStartRecording ==
    /\ SelectedIsDialogue
    /\ ~isRecording
    /\ isRecording' = TRUE
    /\ IF engine = "refactored" /\ mediaRecorder # NoId
       THEN UNCHANGED <<acquiring, nextHandle>>
       ELSE /\ nextHandle < MaxHandles
            /\ acquiring' = acquiring \cup {nextHandle + 1}
            /\ nextHandle' = nextHandle + 1
    /\ recordingClip' = selectedClipId
    /\ op' = Idle
    /\ UNCHANGED <<editVars, pending, engine, audioVars, exportVars, rippleMode,
                   liveStreams, mediaRecorder, recorders, recordedChunks, stopping>>

\* getUserMedia resolves: the rest of AudioEngine.startRecording.  The stream is
\* stored, a recorder with an empty chunk list is made for it, stored and started
getUserMediaResolved(a) ==
    /\ a \in acquiring
    /\ acquiring' = acquiring \ {a}
    /\ liveStreams' = liveStreams \cup {a}
    /\ mediaRecorder' = a
    /\ recorders' = recorders \cup {a}
    /\ recordedChunks' = 0
    /\ op' = Idle
    /\ UNCHANGED <<editVars, takeVars, engine, nextHandle, audioVars, exportVars, rippleMode, stopping>>

\* getUserMedia rejects: the engine throws and the page's catch resets isRecording
getUserMediaRejected(a) ==
    /\ a \in acquiring
    /\ acquiring' = acquiring \ {a}
    /\ isRecording' = FALSE
    /\ op' = Idle
    /\ UNCHANGED <<editVars, pending, recordingClip, engine, nextHandle, audioVars, exportVars, rippleMode,
                   liveStreams, mediaRecorder, recorders, recordedChunks, stopping>>

\* recorder.ondataavailable, of a recorder that records or flushes after stop(): the
\* original engine pushes to its recordedChunks, the refactored one to the chunk
\* list made with the recorder, which is the engine's while the recorder is
ondataavailable(r) ==
    /\ r \in recorders \cup {s.rec : s \in stopping}
    /\ engine = "original" \/ r = mediaRecorder
    /\ recordedChunks < MaxChunks
    /\ recordedChunks' = recordedChunks + 1
    /\ op' = Idle
    /\ UNCHANGED <<editVars, takeVars, engine, nextHandle, audioVars, exportVars, rippleMode,
                   acquiring, liveStreams, mediaRecorder, recorders, stopping>>

\* the Stop button with AudioEngine.stopRecording: without a recorder the promise
\* rejects and the page's catch resets isRecording; otherwise onstop is set on the
\* recorder, replacing one set before, and the recorder is stopped
engineStopRecording ==
    /\ SelectedIsDialogue
    /\ isRecording
    /\ IF mediaRecorder = NoId
       THEN /\ isRecording' = FALSE
            /\ UNCHANGED <<recorders, stopping>>
       ELSE /\ recorders' = recorders \ {mediaRecorder}
            /\ stopping' = {s \in stopping : s.rec # mediaRecorder}
                              \cup {[rec |-> mediaRecorder, clipId |-> selectedClipId]}
            /\ UNCHANGED isRecording
    /\ op' = Idle
    /\ UNCHANGED <<editVars, pending, recordingClip, engine, nextHandle, audioVars, exportVars, rippleMode,
                   acquiring, liveStreams, mediaRecorder, recordedChunks>>

\* the stream whose tracks recorder.onstop stops: the original engine's stream
\* field as it is now, the refactored engine's stream as stopRecording read it
StreamStopped(s) == IF engine = "original" THEN mediaRecorder ELSE s.rec

\* recorder.onstop: the blob is built, a stream's tracks are stopped, the engine's
\* recorder is cleared and the promise resolves; the page then decodes the blob,
\* and its catch resets isRecording when that fails
onstop(s, decodes, duration) ==
    /\ s \in stopping
    /\ nextId + Cardinality(pending) < MaxIds
    /\ stopping' = stopping \ {s}
    /\ liveStreams' = liveStreams \ {StreamStopped(s)}
    /\ mediaRecorder' = NoId
    /\ recordedChunks' = IF engine = "original" THEN recordedChunks ELSE 0
    /\ IF decodes
       THEN /\ pending' = pending \cup {[clipId |-> s.clipId, duration |-> duration,
                                         source |-> "recording",
                                         startedOn |-> recordingClip]}
            /\ UNCHANGED isRecording
       ELSE /\ isRecording' = FALSE
            /\ UNCHANGED pending
    /\ op' = Idle
    /\ UNCHANGED <<editVars, recordingClip, engine, nextHandle, audioVars, exportVars, rippleMode,
                   acquiring, recorders>>

RecNext ==
    \/ engineStartRecording
    \/ \E a \in acquiring : getUserMediaResolved(a)
    \/ \E a \in acquiring : getUserMediaRejected(a)
    \/ \E r \in 1..MaxHandles : ondataavailable(r)
    \/ engineStopRecording
    \/ \E s \in stopping, r \in BOOLEAN, d \in TakeDurations : onstop(s, r, d)
    \/ \E p \in pending : TakeReady(p)

\* a blank project with one dialogue clip, selected, and either engine
RecInit ==
    /\ tracks = BlankTracks
    /\ clips = << NewClip(1, "t_d1", "dialogue", 0, DIALOGUE_DURATION) >>
    /\ currentTime = 0
    /\ selectedClipId = 1
    /\ dragging = NoDrag
    /\ nextId = 1
    /\ isRecording = FALSE
    /\ pending = {}
    /\ recordingClip = NoId
    /\ \E e \in Engines : EngineIdle(e)
    /\ ExportIdle
    /\ rippleMode = FALSE
    /\ op = Idle

RecSpec == RecInit /\ [][RecNext]_vars

(* C10: at most one microphone capture session is held at any time: a        *)
(* startRecording made while a session is active or being acquired gets no   *)
(* second stream, whatever the interleaving with the device acquisition.     *)
C10_OneMicrophoneSession == Cardinality(liveStreams) <= 1

----------------------------------------------------------------------------
(* The two compositors: the drawing part of renderFrame (live preview) and   *)
(* the frame loop body of VideoExporter.exportVideo.  What a compositor      *)
(* draws is the fill it clears the canvas with and the sequence of renderer  *)
(* invocations it makes, each with its clip and its time argument.  The      *)
(* exporter's frame time is the fraction num / den of half seconds.          *)

\* Array.prototype.sort by a numeric key: ascending, elements of equal key in the
\* order they had; keys[i] is the key of seq[i]
StableSort(seq, keys) ==
    LET n == Len(seq)
        Pos(i) == Cardinality({j \in 1..n : keys[j] < keys[i] \/ (keys[j] = keys[i] /\ j <= i)})
    IN  [k \in 1..n |-> seq[CHOOSE i \in 1..n : Pos(i) = k]]

RECURSIVE ConcatAll(_)
ConcatAll(seqs) == IF seqs = <<>> THEN <<>> ELSE Head(seqs) \o ConcatAll(Tail(seqs))

\* the fills the compositors clear the canvas with
PREVIEW_FILL == "#09090b"
EXPORT_FILL == "#000"

\* one invocation of a clip's renderer with the time num / den
Invocation(clip, num, den) == [clipId |-> clip.id, time |-> <<num, den>>]

\* renderFrame up to the audio sync: tracks sorted by order, muted ones skipped, the
\* clips of a track in array order, each rendered with the frame's time
PreviewDraws(time, trks, cs) ==
    LET sortedTracks == StableSort(trks, [i \in 1..Len(trks) |-> trks[i].order])
        TrackDraws(track) ==
            LET trackClips == SelectSeq(cs, LAMBDA c : c.trackId = track.id)
                shown == SelectSeq(trackClips,
                                   LAMBDA c : time >= c.start /\ time < c.start + c.duration)
            IN  [k \in 1..Len(shown) |-> Invocation(shown[k], time, 1)]
    IN  [fill |-> PREVIEW_FILL,
         calls |-> ConcatAll([k \in 1..Len(sortedTracks) |->
                                IF sortedTracks[k].mute THEN <<>>
                                ELSE TrackDraws(sortedTracks[k])])]

\* the body of the exporter's frame loop up to the capture: tracks in array order,
\* muted ones skipped, the clips of a track that contain the time sorted by start,
\* each rendered by renderClip with the time since its start
ExportFrameDraws(num, den, trks, cs) ==
    LET TrackDraws(track) ==
            LET ofTrack == SelectSeq(cs, LAMBDA c : c.trackId = track.id)
                shown == SelectSeq(ofTrack,
                                   LAMBDA c : /\ num >= c.start * den
                                              /\ num < (c.start + c.duration) * den)
                trackClips == StableSort(shown, [i \in 1..Len(shown) |-> shown[i].start])
            IN  [k \in 1..Len(trackClips) |->
                    Invocation(trackClips[k], num - trackClips[k].start * den, den)]
    IN  [fill |-> EXPORT_FILL,
         calls |-> ConcatAll([k \in 1..Len(trks) |->
                                IF trks[k].mute THEN <<>> ELSE TrackDraws(trks[k])])]

\* the preview compositor applied to the editor's state at the playhead
CallPreviewDraws ==
    /\ op.name = "init"
    /\ op' = Op("renderFrame", NoId, currentTime, PreviewDraws(currentTime, tracks, clips))
    /\ UNCHANGED editVars
    /\ UNCHANGED nonEditVars

\* the export compositor applied to the same state at the same time
CallExportFrameDraws ==
    /\ op.name = "init"
    /\ op' = Op("exportFrame", NoId, currentTime,
                ExportFrameDraws(currentTime, 1, tracks, clips))
    /\ UNCHANGED editVars
    /\ UNCHANGED nonEditVars

\* the blank project's tracks with those in muted muted
TracksMuted(muted) ==
    [i \in 1..Len(BlankTracks) |->
        [BlankTracks[i] EXCEPT !.mute = BlankTracks[i].id \in muted]]

\* a dialogue clip and two dropped files, the files on the video or the audio track
\* where clips may lie over each other
CompositeLayouts ==
    {<< NewClip(1, "t_d1", "dialogue", p1[1], p1[2]),
        NewClip(2, "t_v1", "video", p2[1], p2[2]),
        NewClip(3, t3, "video", p3[1], p3[2]) >> :
        p1 \in {<<0, 2>>, <<1, 2>>}, p2 \in Placements, p3 \in {<<0, MaxTime>>, <<1, 1>>},
        t3 \in {"t_v1", "t_a1"}}

CompositeInit ==
    /\ \E muted \in SUBSET {"t_d1", "t_v1"} : tracks = TracksMuted(muted)
    /\ clips \in CompositeLayouts
    /\ currentTime \in 0..MaxTime
    /\ selectedClipId = NoId
    /\ dragging = NoDrag
    /\ nextId = 3
    /\ isRecording = FALSE
    /\ pending = {}
    /\ recordingClip = NoId
    /\ EngineIdle("original")
    /\ ExportIdle
    /\ rippleMode = FALSE
    /\ op = Op("init", NoId, 0, <<>>)

CompositeNext ==
    \/ CallPreviewDraws
    \/ CallExportFrameDraws

CompositeSpec == CompositeInit /\ [][CompositeNext]_vars

(* C11: for identical time, tracks and clips the live-preview compositor and *)
(* the export compositor clear the canvas with the same fill and make the    *)
(* same renderer invocations in the same order with the same time argument.  *)
C11_SameDraws ==
    /\ op.name = "renderFrame" => op.before = ExportFrameDraws(currentTime, 1, tracks, clips)
    /\ op.name = "exportFrame" => op.before = PreviewDraws(currentTime, tracks, clips)

----------------------------------------------------------------------------
(* Export: the page's exportVideo around VideoExporter.exportVideo,          *)
(* exportSubtitles and exportAudioStem.  exportRun keeps the frames          *)
(* composited and captured so far, frame i as <<i, fps>> for the time        *)
(* i / fps seconds, and what became of each of the three outputs.            *)

\* an effect without the cleanup: the frame requested before stays requested
FrameNeverCancelled(exporting) == TRUE

\* the animation-loop effect after a commit: its cleanup cancels the requested frame
\* and a new one is requested exactly when the editor is not exporting
FrameRequestedWhen(exporting) == ~exporting

\* Math.floor(duration * fps) for a duration in half seconds
TotalFramesFloor(duration, fps) == (duration * fps) \div 2

\* Math.ceil(duration * fps) for a duration in half seconds
TotalFrames(duration, fps) == (duration * fps + 1) \div 2

\* an end of the page's exportVideo without the finally clause: a failed export
\* leaves the flag and the progress as they are
ExportFinishedNoFinally(run) ==
    /\ exportRun' = [run EXCEPT !.phase = "done",
                                !.progress = IF "failed" \in {run.video, run.subtitles, run.stem}
                                             THEN @ ELSE <<0, 1>>]
    /\ isExporting' = ("failed" \in {run.video, run.subtitles, run.stem})
    /\ frameRequested' = FrameRequestedWhen(isExporting')

\* the end of the page's exportVideo: its finally clause, and the effect after it
ExportFinished(run) ==
    /\ exportRun' = [run EXCEPT !.phase = "done", !.progress = <<0, 1>>]
    /\ isExporting' = FALSE
    /\ frameRequested' = FrameRequestedWhen(FALSE)

\* the Export button, enabled while not exporting: isExporting is set, the effect
\* stops the animation loop, and the exporter loads FFmpeg first when it has not yet
exportVideo(duration, fps) ==
    /\ ~isExporting
    /\ isExporting' = TRUE
    /\ frameRequested' = FrameRequestedWhen(TRUE)
    /\ exportRun' = [NoExport EXCEPT !.phase = IF loaded THEN "frames" ELSE "loading",
                                     !.duration = duration, !.fps = fps]
    /\ op' = Idle
    /\ UNCHANGED <<editVars, takeVars, engineVars, rippleMode, clockVars, loaded>>

\* VideoExporter.load resolves, or rejects and the page's catch reports the failure
loadDone(ok) ==
    /\ exportRun.phase = "loading"
    /\ loaded' = ok
    /\ IF ok
       THEN /\ exportRun' = [exportRun EXCEPT !.phase = "frames"]
            /\ UNCHANGED <<isExporting, frameRequested>>
       ELSE ExportFinished([exportRun EXCEPT !.video = "failed"])
    /\ op' = Idle
    /\ UNCHANGED <<editVars, takeVars, engineVars, rippleMode, clockVars>>

\* one pass of the frame loop up to the capture: frame i is cleared and rendered
compositeFrame ==
    /\ exportRun.phase = "frames"
    /\ Len(exportRun.composited) = Len(exportRun.frames)
    /\ Len(exportRun.frames) < TotalFrames(exportRun.duration, exportRun.fps)
    /\ exportRun' = [exportRun EXCEPT
                        !.composited = Append(@, <<Len(exportRun.frames), exportRun.fps>>)]
    /\ op' = Idle
    /\ UNCHANGED <<editVars, takeVars, engineVars, rippleMode, clockVars, isExporting, frameRequested, loaded>>

\* getImageData: the pixels of the frame just composited are pushed to frames
captureFrame ==
    /\ exportRun.phase = "frames"
    /\ Len(exportRun.composited) = Len(exportRun.frames) + 1
    /\ exportRun' = [exportRun EXCEPT
                        !.frames = Append(@, Len(exportRun.frames)),
                        !.progress = <<Len(exportRun.frames) * 50,
                                       TotalFrames(exportRun.duration, exportRun.fps)>>]
    /\ op' = Idle
    /\ UNCHANGED <<editVars, takeVars, engineVars, rippleMode, clockVars, isExporting, frameRequested, loaded>>

\* past the frame loop: the frames are written, the audio mixed and FFmpeg run; the
\* video is downloaded, or a step throws and the page's catch reports the failure
encodeDone(ok) ==
    /\ exportRun.phase = "frames"
    /\ Len(exportRun.frames) = TotalFrames(exportRun.duration, exportRun.fps)
    /\ IF ok
       THEN /\ exportRun' = [exportRun EXCEPT !.phase = "subtitles", !.video = "ok",
                                               !.progress = <<100, 1>>]
            /\ UNCHANGED <<isExporting, frameRequested>>
       ELSE ExportFinished([exportRun EXCEPT !.video = "failed"])
    /\ op' = Idle
    /\ UNCHANGED <<editVars, takeVars, engineVars, rippleMode, clockVars, loaded>>

\* exportSubtitles resolves and the file is downloaded, or it throws
exportSubtitlesDone(ok) ==
    /\ exportRun.phase = "subtitles"
    /\ IF ok
       THEN /\ exportRun' = [exportRun EXCEPT !.phase = "stem", !.subtitles = "ok"]
            /\ UNCHANGED <<isExporting, frameRequested>>
       ELSE ExportFinished([exportRun EXCEPT !.subtitles = "failed"])
    /\ op' = Idle
    /\ UNCHANGED <<editVars, takeVars, engineVars, rippleMode, clockVars, loaded>>

\* exportAudioStem resolves and the file is downloaded, or it throws
exportAudioStemDone(ok) ==
    /\ exportRun.phase = "stem"
    /\ ExportFinished([exportRun EXCEPT !.stem = IF ok THEN "ok" ELSE "failed"])
    /\ op' = Idle
    /\ UNCHANGED <<editVars, takeVars, engineVars, rippleMode, clockVars, loaded>>

\* the frame rates exported with: 1 and 3 next to the page's 30
FpsValues == {1, 3, 30}

ExportNext ==
    \/ \E d \in 1..MaxTime, f \in FpsValues : exportVideo(d, f)
    \/ \E ok \in BOOLEAN : loadDone(ok)
    \/ compositeFrame
    \/ captureFrame
    \/ \E ok \in BOOLEAN : encodeDone(ok)
    \/ \E ok \in BOOLEAN : exportSubtitlesDone(ok)
    \/ \E ok \in BOOLEAN : exportAudioStemDone(ok)
    \/ handleTogglePlay
    \/ \E d \in Deltas01, n \in BOOLEAN : animate(d, n)

\* a project with one dropped video file, neither playing nor exporting
ExportInit ==
    /\ tracks = BlankTracks
    /\ clips = << NewClip(1, "t_v1", "video", 0, MaxTime) >>
    /\ currentTime = 0
    /\ selectedClipId = NoId
    /\ dragging = NoDrag
    /\ nextId = 1
    /\ isRecording = FALSE
    /\ pending = {}
    /\ recordingClip = NoId
    /\ EngineIdle("original")
    /\ ExportIdle
    /\ rippleMode = FALSE
    /\ op = Idle

ExportSpec == ExportInit /\ [][ExportNext]_vars

\* an export action is under way
Exporting == exportRun.phase \notin {"idle", "done"}

C15_OutputsIndependent ==
    exportRun.phase = "done" =>
        /\ exportRun.video \in {"ok", "failed"}
        /\ exportRun.subtitles \in {"ok", "failed"}
        /\ exportRun.stem \in {"ok", "failed"}

----------------------------------------------------------------------------
(* Subtitles: VideoExporter.exportSubtitles and formatSRTTime.  Here clip    *)
(* times are counted in tenths of a second, the step of the panel's timing    *)
(* inputs.  A time handed to formatSRTTime is a double: it is written as the  *)
(* tuple of the tenths it was added up from, <<start>> or <<start, duration>>. *)

\* a dialogue clip with its speaker reference and its two text fields
DialogueLine(id, start, duration, speaker, content, scriptText) ==
    NewClip(id, "t_d1", "dialogue", start, duration)
        @@ [speaker |-> speaker, content |-> content, scriptText |-> scriptText]

\* the times, among those below 3 s and the sums the model forms, for which the
\* double product (seconds % 1) * 1000 lies just below the whole number of
\* milliseconds: 1.2 % 1 = 0.19999999999999996, times 1000 is 199.99999999999997
RoundedDown == {<<12>>, <<14>>, <<19>>, <<23>>, <<24>>, <<28>>, <<29>>}

\* formatSRTTime: hours, minutes, seconds and milliseconds, each by Math.floor
formatSRTTime(seconds) ==
    LET tenths == IF Len(seconds) = 1 THEN seconds[1] ELSE seconds[1] + seconds[2]
    IN  << tenths \div 36000, (tenths % 36000) \div 600, (tenths % 600) \div 10,
           100 * (tenths % 10) - (IF seconds \in RoundedDown THEN 1 ELSE 0) >>

\* exportSubtitles: the dialogue clips sorted by start; one cue for each with a text
exportSubtitles(cs, speakers) ==
    LET dialogue == SelectSeq(cs, LAMBDA c : c.type = "dialogue")
        dialogueClips == StableSort(dialogue, [i \in 1..Len(dialogue) |-> dialogue[i].start])
        TextOf(c) == IF c.content # "" THEN c.content ELSE c.scriptText
        withText == SelectSeq(dialogueClips, LAMBDA c : TextOf(c) # "")
    IN  [k \in 1..Len(withText) |->
            LET clip == withText[k]
            IN  [index |-> k,
                 startTime |-> formatSRTTime(<<clip.start>>),
                 endTime |-> formatSRTTime(<<clip.start, clip.duration>>),
                 speaker |-> IF Has(speakers, clip.speaker)
                             THEN Find(speakers, clip.speaker).name ELSE "",
                 text |-> TextOf(clip)]]

\* exportSubtitles applied to the editor's clips and a list of speakers
CallExportSubtitles(speakers) ==
    /\ op.name = "init"
    /\ op' = Op("exportSubtitles", NoId, speakers, exportSubtitles(clips, speakers))
    /\ UNCHANGED editVars
    /\ UNCHANGED nonEditVars

\* the speakers of a blank project, and of a template without speakers
SpeakerLists == { << [id |-> "default", name |-> "Default Speaker"] >>, << >> }

\* three dialogue clips with and without text and speaker, and a dropped video
SubtitleInit ==
    /\ tracks = BlankTracks
    /\ \E s1 \in {0, 5, 12}, s2 \in {0, 12}, d \in {10, 15},
          c2 \in {"", "two"}, t2 \in {"", "script"}, sp \in {"default", "gone"} :
          clips = << DialogueLine(1, s1, d, "default", "one", ""),
                     DialogueLine(2, s2, 10, sp, c2, t2),
                     NewClip(3, "t_v1", "video", 0, 40),
                     DialogueLine(4, 5, d, sp, "", t2) >>
    /\ currentTime = 0
    /\ selectedClipId = NoId
    /\ dragging = NoDrag
    /\ nextId = 4
    /\ isRecording = FALSE
    /\ pending = {}
    /\ recordingClip = NoId
    /\ EngineIdle("original")
    /\ ExportIdle
    /\ rippleMode = FALSE
    /\ op = Op("init", NoId, 0, <<>>)

SubtitleNext == \E speakers \in SpeakerLists : CallExportSubtitles(speakers)

SubtitleSpec == SubtitleInit /\ [][SubtitleNext]_vars

(* C14: exportSubtitles emits one cue for each dialogue clip with a          *)
(* non-empty text and none for another clip, in non-decreasing order of      *)
(* start, numbered from 1; a cue's times are start and start + duration as   *)
(* hours, minutes, seconds and milliseconds, and its text carries the        *)
(* speaker's name exactly when the clip's speaker id resolves.               *)
C14_Subtitles ==
    op.name = "exportSubtitles" =>
        LET cues == op.before
            speakers == op.arg
            TextOf(c) == IF c.content # "" THEN c.content ELSE c.scriptText
            spoken == {i \in 1..Len(clips) : clips[i].type = "dialogue" /\ TextOf(clips[i]) # ""}
            Exact(tenths) == << tenths \div 36000, (tenths % 36000) \div 600,
                                (tenths % 600) \div 10, 100 * (tenths % 10) >>
            Cue(c, k) == [index |-> k,
                          startTime |-> Exact(c.start),
                          endTime |-> Exact(c.start + c.duration),
                          speaker |-> IF Has(speakers, c.speaker)
                                      THEN Find(speakers, c.speaker).name ELSE "",
                          text |-> TextOf(c)]
        IN  /\ Len(cues) = Cardinality(spoken)
            /\ \E order \in [1..Len(cues) -> spoken] :
                  /\ \A j, k \in 1..Len(cues) : j # k => order[j] # order[k]
                  /\ \A j, k \in 1..Len(cues) :
                        j < k => clips[order[j]].start <= clips[order[k]].start
                  /\ \A k \in 1..Len(cues) : cues[k] = Cue(clips[order[k]], k)

----------------------------------------------------------------------------
(* Ripple mode: the Header's toggle, rippleEdit, and the drag handlers        *)

\* the Ripple button of the Header
setRippleMode ==
    /\ rippleMode' = ~rippleMode
    /\ op' = Op("setRippleMode", NoId, 0, <<>>)
    /\ UNCHANGED <<editVars, takeVars, engineVars, exportVars>>

\* a shift that moves the downstream clips by deltaTime without a floor at 0
rippleEditUnclamped(mode, cs, trackId, afterTime, deltaTime) ==
    IF ~mode THEN cs
    ELSE [i \in 1..Len(cs) |->
            IF cs[i].trackId = trackId /\ cs[i].start >= afterTime
            THEN [cs[i] EXCEPT !.start = cs[i].start + deltaTime]
            ELSE cs[i]]

\* rippleEdit(trackId, afterTime, deltaTime) in a render whose rippleMode is mode
rippleEdit(mode, cs, trackId, afterTime, deltaTime) ==
    IF ~mode THEN cs
    ELSE [i \in 1..Len(cs) |->
            IF cs[i].trackId = trackId /\ cs[i].start >= afterTime
            THEN [cs[i] EXCEPT !.start = Max(0, cs[i].start + deltaTime)]
            ELSE cs[i]]

\* rippleEdit applied to the project's clips; shifts past the timeline shown are left out
CallRippleEdit(trackId, afterTime, deltaTime) ==
    LET shifted == rippleEdit(rippleMode, clips, trackId, afterTime, deltaTime)
    IN  /\ op.name = "init"
        /\ \A i \in 1..Len(shifted) : shifted[i].start <= MaxTime
        /\ clips' = shifted
        /\ op' = Op("rippleEdit", NoId, <<trackId, afterTime, deltaTime, rippleMode>>, clips)
        /\ UNCHANGED <<tracks, currentTime, selectedClipId, dragging, nextId>>
        /\ UNCHANGED nonEditVars

RippleDeltas == {0 - 2, 0 - 1, 1}

\* an editor with two clips on the dialogue track and one on the video track
RippleProject(mode) ==
    /\ tracks = BlankTracks
    /\ \E s1 \in 0..1, s2 \in 1..MaxTime, s3 \in 0..MaxTime :
          /\ s1 < s2
          /\ clips = << NewClip(1, "t_d1", "dialogue", s1, 1),
                       NewClip(2, "t_d1", "dialogue", s2, 1),
                       NewClip(3, "t_v1", "video", s3, 1) >>
    /\ currentTime = 0
    /\ selectedClipId = NoId
    /\ dragging = NoDrag
    /\ nextId = 3
    /\ isRecording = FALSE
    /\ pending = {}
    /\ recordingClip = NoId
    /\ EngineIdle("original")
    /\ ExportIdle
    /\ rippleMode = mode
    /\ op = Op("init", NoId, 0, <<>>)

RippleEditInit == \E mode \in BOOLEAN : RippleProject(mode)

RippleEditNext ==
    \E trackId \in {"t_d1", "t_v1"}, afterTime \in 0..MaxTime, deltaTime \in RippleDeltas :
        CallRippleEdit(trackId, afterTime, deltaTime)

RippleEditSpec == RippleEditInit /\ [][RippleEditNext]_vars

\* drag sessions with the Ripple button at hand
RippleNext ==
    \/ setRippleMode
    \/ \E i \in 1..Len(clips), type \in {"move", "resize"} :
          handleTimelineMouseDown(clips[i].id, type)
    \/ \E d \in RippleDeltas : handleMouseMove(d)
    \/ handleMouseUp

RippleSpec == RippleProject(FALSE) /\ [][RippleNext]_vars

(* C16: a ripple shift (trackId, afterTime, deltaTime) moves exactly the      *)
(* clips of trackId that start at or after afterTime, to                      *)
(* max(0, start + deltaTime); no start becomes negative, clips of other       *)
(* tracks and clips starting before afterTime are unchanged, durations are    *)
(* unchanged, and with ripple mode off nothing changes.                       *)
C16_RippleShift ==
    op.name = "rippleEdit" =>
        LET before == op.before
            trackId == op.arg[1]
            afterTime == op.arg[2]
            deltaTime == op.arg[3]
            mode == op.arg[4]
            Downstream(c) == c.trackId = trackId /\ c.start >= afterTime
        IN  /\ Len(clips) = Len(before)
            /\ \A i \in 1..Len(clips) :
                  /\ clips[i].start >= 0
                  /\ clips[i].duration = before[i].duration
                  /\ [clips[i] EXCEPT !.start = 0] = [before[i] EXCEPT !.start = 0]
                  /\ (mode /\ Downstream(before[i])) =>
                        /\ clips[i].start >= before[i].start + deltaTime
                        /\ clips[i].start > 0 => clips[i].start = before[i].start + deltaTime
                  /\ ~(mode /\ Downstream(before[i])) => clips[i] = before[i]

\* with ripple mode on, a shift to the left has stopped one clip of the track at 0,
\* moved another by the whole delta and left the other track's clip where it was
C16_Witness ==
    /\ op.name = "rippleEdit"
    /\ op.arg[4]
    /\ op.arg[3] < 0
    /\ \E i, j, k \in 1..Len(clips) :
          /\ op.before[i].trackId = op.arg[1]
          /\ op.before[i].start >= op.arg[2]
          /\ op.before[i].start + op.arg[3] < 0
          /\ clips[i].start = 0
          /\ op.before[j].trackId = op.arg[1]
          /\ op.before[j].start < op.arg[2]
          /\ clips[j] = op.before[j]
          /\ op.before[k].trackId # op.arg[1]
          /\ clips[k] = op.before[k]

(* C17: with ripple mode on, an accepted move or resize of a clip shifts      *)
(* every later clip of the same track by the same delta and shifts no clip    *)
(* of another track.                                                          *)
C17_RippleFollowsEdit ==
    [][ (rippleMode /\ op'.name = "handleMouseMove" /\ clips' # clips) =>
            LET old == Find(clips, dragging.clipId)
                new == Find(clips', dragging.clipId)
                delta == (new.start - old.start) + (new.duration - old.duration)
            IN  \A i \in 1..Len(clips) :
                    /\ (clips[i].trackId = old.trackId /\ clips[i].start > old.start)
                          => clips'[i].start = clips[i].start + delta
                    /\ clips[i].trackId # old.trackId => clips'[i] = clips[i] ]_vars

----------------------------------------------------------------------------
(* Waveform peaks: AudioEngine.generateWaveformPeaks, the same in both        *)
(* engines.  A sample is counted in steps of 1/FullScale, so the Float32      *)
(* range [-1, 1] is -FullScale..FullScale and a peak in [0, 1] is             *)
(* 0..FullScale.                                                              *)

MaxSamples == 4
MaxPeaks == 3
FullScale == 2

Abs(x) == IF x < 0 THEN 0 - x ELSE x

\* the first channels of the decoded buffers, up to MaxSamples long
RawData == UNION {[1..n -> (0 - FullScale)..FullScale] : n \in 0..MaxSamples}

\* a scan that compares the samples themselves with the running maximum
generateWaveformPeaksSigned(rawData, numPeaks) ==
    LET blockSize == Len(rawData) \div numPeaks
    IN  [i \in 1..numPeaks |->
            LET start == (i - 1) * blockSize
                vals == {0} \cup {rawData[start + j] : j \in 1..blockSize}
            IN  CHOOSE max \in vals : \A v \in vals : v <= max]

\* generateWaveformPeaks once the blob is decoded: per block, the running maximum,
\* from 0, of the absolute samples
generateWaveformPeaks(rawData, numPeaks) ==
    LET blockSize == Len(rawData) \div numPeaks
    IN  [i \in 1..numPeaks |->
            LET start == (i - 1) * blockSize
                vals == {0} \cup {Abs(rawData[start + j]) : j \in 1..blockSize}
            IN  CHOOSE max \in vals : \A v \in vals : v <= max]

\* the peaks of one decoded recording
CallGenerateWaveformPeaks(rawData, numPeaks) ==
    /\ op = Idle
    /\ op' = Op("generateWaveformPeaks", NoId, <<rawData, numPeaks>>,
                generateWaveformPeaks(rawData, numPeaks))
    /\ UNCHANGED editVars
    /\ UNCHANGED nonEditVars

PeaksNext ==
    \E rawData \in RawData, numPeaks \in 1..MaxPeaks :
        CallGenerateWaveformPeaks(rawData, numPeaks)

PeaksSpec == AudioInit /\ [][PeaksNext]_vars

(* C18: generateWaveformPeaks with N peaks on S samples in [-1, 1] returns    *)
(* exactly N values, each in [0, 1]; value i is the largest absolute sample   *)
(* of the i-th block of floor(S/N) samples of the first channel (0 for an     *)
(* empty block), also when S < N and when S is not a multiple of N.           *)
C18_Peaks ==
    op.name = "generateWaveformPeaks" =>
        LET rawData == op.arg[1]
            N == op.arg[2]
            S == Len(rawData)
            peaks == op.before
            Block(i) == {k \in 1..S : (i - 1) * (S \div N) < k /\ k <= i * (S \div N)}
        IN  /\ Len(peaks) = N
            /\ \A i \in 1..N :
                  /\ 0 <= peaks[i] /\ peaks[i] <= FullScale
                  /\ \A k \in Block(i) : Abs(rawData[k]) <= peaks[i]
                  /\ Block(i) # {} => \E k \in Block(i) : Abs(rawData[k]) = peaks[i]
                  /\ Block(i) = {} => peaks[i] = 0

\* S is larger than N and not a multiple of it: a negative sample is a block's
\* peak, and the sample left over after the last block is louder than every peak
C18_Witness ==
    /\ op.name = "generateWaveformPeaks"
    /\ Len(op.arg[1]) > op.arg[2]
    /\ Len(op.arg[1]) % op.arg[2] # 0
    /\ op.arg[2] > 1
    /\ op.arg[1][1] < 0
    /\ op.before[1] = 0 - op.arg[1][1]
    /\ \A i \in 1..op.arg[2] : op.before[i] < Abs(op.arg[1][Len(op.arg[1])])

----------------------------------------------------------------------------
(* C19: every clip in every reachable state of the editor has start >= 0    *)
(* and duration > 0: an edit that would set a negative start or a zero or   *)
(* negative duration is rejected and leaves the clip as it was.             *)
C19_ClipsInRange ==
    \A i \in 1..Len(clips) : clips[i].start >= 0 /\ clips[i].duration > 0

----------------------------------------------------------------------------
(* Error objects: AppError, its subclasses and their static factories.  A    *)
(* constructor is applied to the sequence of the arguments of the call: a    *)
(* parameter without an argument takes its default, and an argument past the *)
(* constructor's parameters is dropped.  The message and the timestamp are   *)
(* left out of the object.                                                   *)

\* new AppError(message, code, category, context = {}, recoverable = true)
AppError(args) ==
    [code |-> args[2],
     category |-> args[3],
     context |-> IF Len(args) >= 4 THEN args[4] ELSE <<>>,
     recoverable |-> IF Len(args) >= 5 THEN args[5] ELSE TRUE]

\* new AudioError(message, code, context = {}): super(message, code, AUDIO, context)
AudioError(args) ==
    AppError(<<args[1], args[2], "AUDIO", IF Len(args) >= 3 THEN args[3] ELSE <<>> >>)

\* new ExportError(message, code, context = {}): super(message, code, EXPORT, context)
ExportError(args) ==
    AppError(<<args[1], args[2], "EXPORT", IF Len(args) >= 3 THEN args[3] ELSE <<>> >>)

\* new ValidationError(message, code, context = {}): super(message, code, STATE, context, true)
ValidationError(args) ==
    AppError(<<args[1], args[2], "STATE", IF Len(args) >= 3 THEN args[3] ELSE <<>>, TRUE>>)

\* the static factories of the three classes, applied to the caller's details
ErrorFactories(details) ==
    [AudioError_microphoneAccessDenied |->
        AudioError(<<"m", "AUDIO_MIC_ACCESS_DENIED", details>>),
     AudioError_recordingFailed |->
        AudioError(<<"m", "AUDIO_RECORDING_FAILED", details>>),
     AudioError_playbackFailed |->
        AudioError(<<"m", "AUDIO_PLAYBACK_FAILED", details>>),
     AudioError_decodingFailed |->
        AudioError(<<"m", "AUDIO_DECODING_FAILED", details>>),
     AudioError_contextInitFailed |->
        AudioError(<<"m", "AUDIO_CONTEXT_INIT_FAILED", details, FALSE>>),
     ExportError_ffmpegNotAvailable |->
        ExportError(<<"m", "EXPORT_FFMPEG_UNAVAILABLE", <<"browser">>, FALSE>>),
     ExportError_ffmpegLoadFailed |->
        ExportError(<<"m", "EXPORT_FFMPEG_LOAD_FAILED", details>>),
     ExportError_frameRenderingFailed |->
        ExportError(<<"m", "EXPORT_FRAME_RENDER_FAILED", details>>),
     ExportError_audioMixingFailed |->
        ExportError(<<"m", "EXPORT_AUDIO_MIX_FAILED", details>>),
     ExportError_encodingFailed |->
        ExportError(<<"m", "EXPORT_ENCODING_FAILED", details>>),
     ExportError_noCanvas |->
        ExportError(<<"m", "EXPORT_NO_CANVAS", <<>>, FALSE>>),
     ValidationError_invalidInput |->
        ValidationError(<<"m", "VALIDATION_INVALID_INPUT", details>>),
     ValidationError_clipOverlap |->
        ValidationError(<<"m", "VALIDATION_CLIP_OVERLAP", details>>),
     ValidationError_missingRequiredField |->
        ValidationError(<<"m", "VALIDATION_MISSING_FIELD", details>>),
     ValidationError_outOfBounds |->
        ValidationError(<<"m", "VALIDATION_OUT_OF_BOUNDS", details>>)]

\* a factory makes the error some operation is about to throw
MakeError(factory, details) ==
    /\ op = Idle
    /\ op' = Op("error", NoId, factory, ErrorFactories(details)[factory])
    /\ UNCHANGED editVars
    /\ UNCHANGED nonEditVars

\* what a caller hands to a factory: a clip id or frame number and a value
ErrorDetails == (0..MaxIds) \X (0..MaxTime)

ErrorNext ==
    \E factory \in DOMAIN ErrorFactories(<<>>), details \in ErrorDetails :
        MakeError(factory, details)

ErrorSpec == AudioInit /\ [][ErrorNext]_vars

(* C20: the error objects of the non-recoverable kinds (audio context         *)
(* initialisation failure, FFmpeg unavailable, missing canvas) carry          *)
(* recoverable = false, and every validation error carries recoverable = true. *)
C20_RecoverableFlags ==
    op.name = "error" =>
        /\ op.before.code \in {"AUDIO_CONTEXT_INIT_FAILED", "EXPORT_FFMPEG_UNAVAILABLE",
                               "EXPORT_NO_CANVAS"} => op.before.recoverable = FALSE
        /\ op.before.category = "STATE" => op.before.recoverable = TRUE

----------------------------------------------------------------------------
(* C21: every take belongs to exactly one clip: in every reachable state,   *)
(* also after a dialogue clip with takes is split, no take id is in the     *)
(* takes lists of two different clips.                                      *)
C21_TakeInOneClip ==
    \A i, j \in 1..Len(clips) : i # j => TakeIds(clips[i]) \cap TakeIds(clips[j]) = {}

----------------------------------------------------------------------------
(* Tracks: createProject and addTrack *)

MaxTracks == 5

\* the tracks of the four templates of lib/templates: type, order and overlap policy
TEMPLATES ==
    [podcast   |-> << <<"dialogue", 1, "disallow">>, <<"audio", 2, "none">>,
                      <<"audio", 3, "none">> >>,
     tutorial  |-> << <<"video", 1, "none">>, <<"dialogue", 2, "allow">>,
                      <<"audio", 3, "none">> >>,
     audiobook |-> << <<"dialogue", 1, "disallow">>, <<"audio", 2, "none">> >>,
     interview |-> << <<"video", 1, "none">>, <<"video", 2, "none">>,
                      <<"dialogue", 3, "allow">>, <<"picture", 4, "none">> >>]

\* the random ids of the tracks made in a session, by the position they are made for
FreshTrackIds == <<"t_n1", "t_n2", "t_n3", "t_n4", "t_n5", "t_n6", "t_n7", "t_n8">>

\* template tracks that keep the order written in the template
NewTracksKeepOrder(template) ==
    [index \in 1..Len(template) |->
        Track(FreshTrackIds[index], template[index][1], template[index][2],
              template[index][3])]

\* template.tracks.map((t, index) => ({ ...t, id, order: index }))
NewTracks(template) ==
    [index \in 1..Len(template) |->
        Track(FreshTrackIds[index], template[index][1], index - 1, template[index][3])]

\* createProject from the initial view: blank, or from a template
createProject(template) ==
    /\ op.name = "init"
    /\ tracks' = IF template = "blank" THEN BlankTracks ELSE NewTracks(TEMPLATES[template])
    /\ clips' = <<>>
    /\ op' = Op("createProject", NoId, template, <<>>)
    /\ UNCHANGED <<currentTime, selectedClipId, dragging, nextId>>
    /\ UNCHANGED nonEditVars

\* addTrack(type) from the Add Track modal of an open project
addTrack(type) ==
    /\ op.name # "init"
    /\ Len(tracks) < MaxTracks
    /\ tracks' = Append(tracks, Track(FreshTrackIds[Len(tracks) + 1], type, Len(tracks),
                                      IF type = "dialogue" THEN "disallow" ELSE "none"))
    /\ op' = Op("addTrack", NoId, type, tracks)
    /\ UNCHANGED <<clips, currentTime, selectedClipId, dragging, nextId>>
    /\ UNCHANGED nonEditVars

TrackNext ==
    \/ \E template \in {"blank"} \cup DOMAIN TEMPLATES : createProject(template)
    \/ \E type \in {"video", "audio", "picture", "dialogue", "text"} : addTrack(type)
    \/ \E i \in 1..Len(tracks) : toggleMute(tracks[i].id)

\* the initial view: no project yet
TrackInit ==
    /\ tracks = <<>>
    /\ clips = <<>>
    /\ currentTime = 0
    /\ selectedClipId = NoId
    /\ dragging = NoDrag
    /\ nextId = 0
    /\ isRecording = FALSE
    /\ pending = {}
    /\ recordingClip = NoId
    /\ EngineIdle("original")
    /\ ExportIdle
    /\ rippleMode = FALSE
    /\ op = Op("init", NoId, 0, <<>>)

TrackSpec == TrackInit /\ [][TrackNext]_vars

(* C22: track order values are unique within a project in every reachable   *)
(* state: after the project is created, blank or from a template, and after *)
(* any number of addTrack operations, no two tracks have the same order.    *)
C22_UniqueOrder ==
    \A i, j \in 1..Len(tracks) : i # j => tracks[i].order # tracks[j].order

\* a track was added to a project made from a template
C22_Witness ==
    /\ op.name = "addTrack"
    /\ Len(op.before) > 0
    /\ op.before[1].id = FreshTrackIds[1]
    /\ tracks[Len(tracks)].order = Len(op.before)

----------------------------------------------------------------------------
(* C23: during a drag session every pointer event computes its candidate     *)
(* from the values captured at the press (move: max(0, originalStart +       *)
(* delta); resize: max(0.5 s, originalDuration + delta)); the candidate is   *)
(* applied only if checkOverlap is false for it, otherwise the clips stay as *)
(* they were; so the dragged clip never gets a start below 0 or a duration   *)
(* below 0.5 s.                                                              *)
C23_DragCandidates ==
    [][ op'.name = "handleMouseMove" =>
            LET id == dragging.clipId
                clip == Find(clips, id)
                delta == op'.arg
                newStart == Max(0, dragging.originalStart + delta)
                newDuration == Max(MIN_DURATION, dragging.originalDuration + delta)
            IN  /\ dragging' = dragging
                /\ dragging.type = "move" =>
                      clips' = IF checkOverlap(id, newStart, clip.duration) THEN clips
                               ELSE SetStart(clips, id, newStart)
                /\ dragging.type = "resize" =>
                      clips' = IF checkOverlap(id, clip.start, newDuration) THEN clips
                               ELSE SetDuration(clips, id, newDuration)
                /\ Find(clips', id).start >= 0
                /\ Find(clips', id).duration >= MIN_DURATION ]_vars

\* a move past the left edge was accepted and put the clip at 0, and the next event
\* of the session still starts from the press position
C23_Witness ==
    /\ op.name = "handleMouseMove"
    /\ dragging.type = "move"
    /\ dragging.originalStart > 0
    /\ dragging.originalStart + op.arg < 0
    /\ Find(clips, dragging.clipId).start = 0

----------------------------------------------------------------------------
(* C24: a drag session closes on pointer release: the release leaves no      *)
(* session, with no session open no pointer event changes a clip until a     *)
(* press opens a new one, and a press leaves exactly the session of the      *)
(* clip pressed, so at most one session is open at any time.                 *)
C24_SessionCloses ==
    [][ /\ op'.name = "handleMouseUp" => dragging' = NoDrag
        /\ dragging = NoDrag => clips' = clips
        /\ op'.name = "handleMouseMove" => dragging # NoDrag /\ dragging' = dragging
        /\ op'.name = "handleTimelineMouseDown" =>
              /\ dragging'.clipId = op'.clipId
              /\ clips' = clips ]_vars

\* the release closed the session of a clip that lies at the end of the timeline shown,
\* the other clips at 0
C24_Witness ==
    /\ op.name = "handleMouseUp"
    /\ dragging = NoDrag
    /\ Has(clips, op.clipId)
    /\ Find(clips, op.clipId).start + Find(clips, op.clipId).duration = MaxTime
    /\ \A i \in 1..Len(clips) : clips[i].id # op.clipId => clips[i].start = 0

----------------------------------------------------------------------------
(* C25: a preview tick starts playback for a clip only if no source is       *)
(* active for that clip and the playhead is in the clip's leading window     *)
(* (0 <= currentTime - start < 0.1 s): a clip that is playing is not         *)
(* restarted by the following ticks that still fall inside the window.       *)
C25_NoRestart ==
    [][ \A c \in calls' \ calls :
            /\ currentTime' = Find(clips, c.clipId).start
            /\ \A s \in playing : s.clipId = c.clipId => nodes[s.clipId] # s.h
            /\ \A s \in playing : s.clipId = c.clipId => s \in playing' ]_vars

----------------------------------------------------------------------------
(* C26: while the transport is paused all sources are torn down: after a     *)
(* tick in the paused state no playback source is active for any clip, the   *)
(* sources whose decode was pending at the pause included.                   *)
C26_PausedSilence ==
    [][ ( /\ ~isPlaying
          /\ nodes' = [c \in ClipIds |-> NoId]
          /\ playing' = playing \ StoppedBy({c \in ClipIds : nodes[c] # NoId})
          /\ UNCHANGED <<calls, isPlaying, nextHandle>> )
        => playing' = {} ]_vars

----------------------------------------------------------------------------
(* C27: a playClip call whose source is missing or whose decode fails is a   *)
(* no-op on playback state: it starts no source and leaves the active        *)
(* sources, of its clip and of every other clip, as they were before the     *)
(* call.  The decode's outcome is not known when playClip is called, so      *)
(* what the call does before the decode must leave the sources alone, and    *)
(* the failed decode must change nothing but the call.                       *)
C27_FailedPlayIsNoOp ==
    [][ /\ \A c \in calls' \ calls : \A s \in playing :
              (s.clipId = c.clipId /\ nodes[s.clipId] = s.h)
                  => (s \in playing' /\ nodes'[s.clipId] = s.h)
        /\ (calls' # calls /\ calls' \subseteq calls /\ playing' \subseteq playing)
              => (playing' = playing /\ nodes' = nodes) ]_vars

----------------------------------------------------------------------------
(* The playback graph of playClip: the source's playbackRate and the gain    *)
(* node's gain.  Volume and speed are counted in quarters: Unity is 1.0.     *)

Unity == 4

\* the graph playClip builds for params, once the buffer is decoded, the same in both
\* engines: the rate is params.speed || 1.0 (the original engine sets it only if
\* params.speed is truthy, over a node's default of 1), the gain params.volume || 1.0
PlaybackGraph(params) ==
    [playbackRate |-> IF params.speed # 0 THEN params.speed ELSE Unity,
     gain |-> IF params.volume # 0 THEN params.volume ELSE Unity]

\* playClip of the project's engine for a clip with the params given
CallPlaybackGraph(params) ==
    /\ op = Idle
    /\ op' = Op("playClip", 1, params, PlaybackGraph(params))
    /\ UNCHANGED editVars
    /\ UNCHANGED nonEditVars

\* volume in [0, 2] and speed in (0, 4]
GraphNext ==
    \E volume \in 0..(2 * Unity), speed \in 1..(4 * Unity) :
        CallPlaybackGraph([volume |-> volume, speed |-> speed])

GraphSpec == AudioInit /\ [][GraphNext]_vars

(* C28: playClip builds its playback graph with the gain exactly             *)
(* params.volume and the playback rate exactly params.speed, for every       *)
(* volume in [0, 2] and speed in (0, 4], volume 0 (silence) included.        *)
C28_GraphFollowsParams ==
    op.name = "playClip" =>
        /\ op.before.gain = op.arg.volume
        /\ op.before.playbackRate = op.arg.speed

----------------------------------------------------------------------------
(* C29: stopRecording on an active session stops every track of the stream   *)
(* that session captured and clears the session, so that isRecording() is    *)
(* false afterwards; called with no active session it rejects and changes    *)
(* nothing in the engine.  A session ends in the step that takes its         *)
(* recorder's 'stop' event.                                                  *)
C29_StopEndsSession ==
    [][ /\ \A s \in stopping \ stopping' :
              /\ s.rec \notin liveStreams'
              /\ mediaRecorder' = NoId
        /\ (isRecording /\ ~isRecording' /\ mediaRecorder = NoId /\ stopping' = stopping
                /\ acquiring' = acquiring)
              => UNCHANGED recVars ]_vars

----------------------------------------------------------------------------
----------------------------------------------------------------------------
(* Export progress: the values VideoExporter.exportVideo hands to its         *)
(* onProgress callback, in the order of the calls.  A value is the pair       *)
(* <<num, den>> for num / den percent.  FFmpeg's 'progress' events carry a    *)
(* ratio in [0, 1], counted here in quarters.                                 *)

\* the ratios of the 'progress' events of one ffmpeg.exec: none, one or two, rising
EncoderEvents ==
    {<<>>} \cup {<<q>> : q \in 0..4}
           \cup {e \in (0..4) \X (0..4) : e[1] <= e[2]}

\* the calls of onProgress during one exportVideo that succeeds: (i / totalFrames) * 50
\* after frame i is captured, progress * 100 for each 'progress' event of the
\* handler set in load, and 100 at the end
ExportProgress(duration, fps, events) ==
    LET totalFrames == TotalFrames(duration, fps)
    IN  [i \in 1..totalFrames |-> <<(i - 1) * 50, totalFrames>>]
            \o [k \in 1..Len(events) |-> <<events[k] * 25, 1>>]
            \o << <<100, 1>> >>

\* one export of the project and the progress it reports
CallExportProgress(duration, fps, events) ==
    /\ op = Idle
    /\ op' = Op("exportProgress", NoId, <<duration, fps>>, ExportProgress(duration, fps, events))
    /\ UNCHANGED editVars
    /\ UNCHANGED nonEditVars

ProgressNext ==
    \E d \in 1..MaxTime, f \in FpsValues, events \in EncoderEvents :
        CallExportProgress(d, f, events)

ProgressSpec == ExportInit /\ [][ProgressNext]_vars

(* C31: during one export the progress reported never decreases: frame       *)
(* rendering reports values in [0, 50], encoding reports values in           *)
(* [50, 100], and 100 is the last value reported.                            *)
C31_ProgressMonotone ==
    op.name = "exportProgress" =>
        LET reports == op.before
            n == Len(reports)
            totalFrames == TotalFrames(op.arg[1], op.arg[2])
            Leq(a, b) == a[1] * b[2] <= b[1] * a[2]
        IN  /\ \A k \in 1..(n - 1) : Leq(reports[k], reports[k + 1])
            /\ \A k \in 1..totalFrames :
                  Leq(<<0, 1>>, reports[k]) /\ Leq(reports[k], <<50, 1>>)
            /\ \A k \in (totalFrames + 1)..n :
                  Leq(<<50, 1>>, reports[k]) /\ Leq(reports[k], <<100, 1>>)
            /\ reports[n] = <<100, 1>>

----------------------------------------------------------------------------
(* The audio of an export and of the live preview.  A voice is a source      *)
(* node that was started: the clip it plays, the time it starts at, its      *)
(* playback rate (in quarters) and its gain, counted in steps of             *)
(* 1 / (Unity * TrackUnity).  Track volumes are in tenths.                   *)

TrackUnity == 10
MusicVolume == 3

\* the dialogue and the music track of createProject(), muted or not
MixTracks(muted) ==
    << [id |-> "t_d1", type |-> "dialogue", mute |-> "t_d1" \in muted, volume |-> TrackUnity],
       [id |-> "t_a1", type |-> "audio", mute |-> "t_a1" \in muted, volume |-> MusicVolume] >>

\* a take given as a blob, as a URI, or as both
MixTake(id, kind) ==
    [id |-> id, uri |-> kind \in {"uri", "both"}, blob |-> kind \in {"blob", "both"}]

\* a clip of the track of its type; kind "none" is a clip without takes
MixClip(id, type, start, kind, params) ==
    [id |-> id, type |-> type, start |-> start,
     trackId |-> IF type = "dialogue" THEN "t_d1" ELSE "t_a1",
     takes |-> IF kind = "none" THEN <<>> ELSE << MixTake(id + MaxClips, kind) >>,
     activeTakeId |-> IF kind = "none" THEN NoId ELSE id + MaxClips,
     params |-> params]

\* tracks.find(t => t.id === clip.trackId)?.mute
TrackMuted(ts, clip) == Has(ts, clip.trackId) /\ Find(ts, clip.trackId).mute

\* the blob mixAudioTracks decodes for a clip, if any: the active take's blob of a
\* dialogue clip, params.audioBlob of an audio clip
MixHasSource(clip) ==
    IF clip.type = "dialogue"
    THEN Has(clip.takes, clip.activeTakeId) /\ Find(clip.takes, clip.activeTakeId).blob
    ELSE clip.type = "audio" /\ clip.params.audioBlob

\* the source node mixAudioTracks starts for a clip
MixVoice(ts, clip) ==
    [clipId |-> clip.id, when |-> clip.start,
     rate |-> IF clip.params.speed # 0 THEN clip.params.speed ELSE Unity,
     gain |-> (IF clip.params.volume # 0 THEN clip.params.volume ELSE Unity)
                * (IF Has(ts, clip.trackId) THEN Find(ts, clip.trackId).volume ELSE TrackUnity)]

\* the same without the try / catch around a clip: a failed decode ends the loop
mixAudioTracksNoCatch(cs, ts, undecodable) ==
    LET Mixed(j) == /\ cs[j].type \in {"dialogue", "audio"} /\ ~TrackMuted(ts, cs[j])
                    /\ MixHasSource(cs[j])
    IN  {MixVoice(ts, cs[i]) : i \in {j \in 1..Len(cs) :
            /\ Mixed(j)
            /\ \A k \in 1..j : Mixed(k) => cs[k].id \notin undecodable}}

\* the source nodes mixAudioTracks starts in its offline context; undecodable are
\* the clips whose blob decodeAudioData rejects
mixAudioTracks(cs, ts, undecodable) ==
    {MixVoice(ts, cs[i]) : i \in {j \in 1..Len(cs) :
        /\ cs[j].type \in {"dialogue", "audio"} /\ ~TrackMuted(ts, cs[j])
        /\ MixHasSource(cs[j])
        /\ cs[j].id \notin undecodable}}

\* the source renderFrame hands to playClip: activeTake.uri || activeTake.blob
PreviewHasSource(clip) ==
    /\ clip.activeTakeId # NoId /\ Has(clip.takes, clip.activeTakeId)
    /\ Find(clip.takes, clip.activeTakeId).uri \/ Find(clip.takes, clip.activeTakeId).blob

\* the source nodes the preview starts as the playhead crosses the start of each clip
PreviewVoices(cs, ts, undecodable) ==
    {[clipId |-> cs[i].id, when |-> cs[i].start,
      rate |-> PlaybackGraph(cs[i].params).playbackRate,
      gain |-> PlaybackGraph(cs[i].params).gain * TrackUnity] : i \in {j \in 1..Len(cs) :
        /\ cs[j].type \in {"audio", "dialogue"} /\ ~TrackMuted(ts, cs[j])
        /\ PreviewHasSource(cs[j])
        /\ cs[j].id \notin undecodable}}

\* an export's mix of a project, next to what the preview of the project plays
CallMixAudioTracks(cs, ts, undecodable) ==
    /\ op = Idle
    /\ op' = Op("mixAudioTracks", NoId,
                [clips |-> cs, tracks |-> ts, undecodable |-> undecodable],
                [mix |-> mixAudioTracks(cs, ts, undecodable),
                 preview |-> PreviewVoices(cs, ts, undecodable)])
    /\ UNCHANGED editVars
    /\ UNCHANGED nonEditVars

\* the params of a clip: all at unity, half the volume at twice the speed, or volume 0
\* without a speed and with an audio blob
MixParams(volume, audioBlob) ==
    [volume |-> volume, speed |-> IF volume = 0 THEN 0 ELSE (3 * Unity) - (2 * volume),
     audioBlob |-> audioBlob]

MixNext ==
    \E ty1 \in {"dialogue", "audio", "video"}, kd1 \in {"none", "blob", "uri"},
       volume \in {0, Unity \div 2, Unity},
       ty2 \in {"dialogue", "audio"}, kd2 \in {"none", "blob"},
       st \in 0..1, muted \in SUBSET {"t_d1", "t_a1"}, undecodable \in SUBSET (1..MaxClips) :
        CallMixAudioTracks(<< MixClip(1, ty1, 0, kd1, MixParams(volume, volume = 0)),
                              MixClip(2, ty2, st, kd2, MixParams(Unity, ty2 = "audio")) >>,
                           MixTracks(muted), undecodable)

MixSpec == ExportInit /\ [][MixNext]_vars

(* C32: in the export's mix a clip whose source is missing or fails to       *)
(* decode is skipped, every other audio or dialogue clip of an unmuted track *)
(* is in the mix at its start time, and no clip of a muted track is in it.   *)
C32_MixSkipsFailures ==
    op.name = "mixAudioTracks" =>
        LET cs == op.arg.clips
            ts == op.arg.tracks
            InMix(c) == \E v \in op.before.mix : v.clipId = c.id /\ v.when = c.start
        IN  \A i \in 1..Len(cs) :
               InMix(cs[i]) <=>
                  /\ cs[i].type \in {"audio", "dialogue"}
                  /\ ~Find(ts, cs[i].trackId).mute
                  /\ MixHasSource(cs[i])
                  /\ cs[i].id \notin op.arg.undecodable

\* the first clip's decode failed and the second clip is in the mix
C32_Witness ==
    /\ op.name = "mixAudioTracks"
    /\ MixHasSource(op.arg.clips[1]) /\ ~TrackMuted(op.arg.tracks, op.arg.clips[1])
    /\ op.arg.undecodable = {1}
    /\ \E v \in op.before.mix : v.clipId = 2
    /\ \A v \in op.before.mix : v.clipId # 1

(* C33: the export's mix is the preview's audio: a clip is in the mix        *)
(* exactly when the preview starts a source for it as the playhead crosses   *)
(* its start, and with the same gain and rate.                               *)
C33_MixIsPreview ==
    op.name = "mixAudioTracks" => op.before.mix = op.before.preview

----------------------------------------------------------------------------
(* validateClip.  A JavaScript number is a pair: <<"num", v>>, or one of     *)
(* NaN, Infinity, -Infinity and undefined with 0 beside it.  Volume,         *)
(* opacity and speed are counted in quarters.                                *)

Num(v) == <<"num", v>>
NaN == <<"NaN", 0>>
Infinity == <<"Infinity", 0>>
Undefined == <<"undefined", 0>>

\* x < k and x > k of JavaScript for a number k: false for NaN
Lt(x, k) == x[1] = "-Infinity" \/ (x[1] = "num" /\ x[2] < k)
Gt(x, k) == x[1] = "Infinity" \/ (x[1] = "num" /\ x[2] > k)
Le(x, k) == Lt(x, k) \/ x = Num(k)

\* Number.isFinite
IsFinite(x) == x[1] = "num"

validTypes == {"video", "audio", "picture", "dialogue", "text"}

\* validateClipParams: the field whose check throws, "" when it returns
validateClipParams(params) ==
    CASE params.volume # Undefined /\ (Lt(params.volume, 0) \/ Gt(params.volume, 2 * Unity))
            -> "volume"
      [] OTHER ->
    CASE params.opacity # Undefined /\ (Lt(params.opacity, 0) \/ Gt(params.opacity, Unity))
            -> "opacity"
      [] OTHER ->
    CASE params.speed # Undefined /\ (Le(params.speed, 0) \/ Gt(params.speed, 4 * Unity))
            -> "speed"
      [] OTHER ->
    CASE params.hasTransform /\ params.x # Undefined /\ ~IsFinite(params.x)
            -> "transform.x"
      [] params.hasTransform /\ params.scaleX # Undefined
            /\ (Le(params.scaleX, 0) \/ ~IsFinite(params.scaleX))
            -> "transform.scaleX"
      [] OTHER -> ""

\* validateClip: the field whose check throws a ValidationError, "" when it returns;
\* a missing string field is the empty string
validateClip(clip, operation) ==
    CASE operation = "create" /\ clip.id = "" -> "id"
      [] operation = "create" /\ clip.id # "" /\ clip.trackId = "" -> "trackId"
      [] operation = "create" /\ clip.id # "" /\ clip.trackId # "" /\ clip.type = "" -> "type"
      [] operation = "create" /\ clip.id # "" /\ clip.trackId # "" /\ clip.type # ""
            /\ clip.name = "" -> "name"
      [] OTHER ->
    CASE clip.start # Undefined /\ (Lt(clip.start, 0) \/ ~IsFinite(clip.start)) -> "start"
      [] OTHER ->
    CASE clip.duration # Undefined /\ (Le(clip.duration, 0) \/ ~IsFinite(clip.duration))
            -> "duration"
      [] OTHER ->
    CASE clip.type # "" /\ clip.type \notin validTypes -> "type"
      [] OTHER ->
    IF clip.hasParams THEN validateClipParams(clip.params) ELSE ""

\* the params of the clips handed to validateClip, by case
ParamsCase(k) ==
    LET none == [volume |-> Undefined, opacity |-> Undefined, speed |-> Undefined,
                 hasTransform |-> FALSE, x |-> Undefined, scaleX |-> Undefined]
    IN  CASE k = 1 -> [none EXCEPT !.volume = Num(0)]
          [] k = 2 -> [none EXCEPT !.volume = Num(2 * Unity), !.speed = Num(4 * Unity)]
          [] k = 3 -> [none EXCEPT !.volume = Num((2 * Unity) + 1)]
          [] k = 4 -> [none EXCEPT !.volume = Num(0 - 1)]
          [] k = 5 -> [none EXCEPT !.opacity = Num(Unity + 1)]
          [] k = 6 -> [none EXCEPT !.opacity = Num(Unity)]
          [] k = 7 -> [none EXCEPT !.speed = Num(0)]
          [] k = 8 -> [none EXCEPT !.speed = Num((4 * Unity) + 1)]
          [] k = 9 -> [none EXCEPT !.hasTransform = TRUE, !.scaleX = Num(0)]
          [] k = 10 -> [none EXCEPT !.hasTransform = TRUE, !.x = NaN]
          [] k = 11 -> [none EXCEPT !.hasTransform = TRUE, !.x = Num(1), !.scaleX = Num(Unity)]
          [] OTHER -> none

MaxParamsCase == 12

\* one call of validateClip
CallValidateClip(clip, operation) ==
    /\ op = Idle
    /\ op' = Op("validateClip", NoId, [clip |-> clip, operation |-> operation],
                validateClip(clip, operation))
    /\ UNCHANGED editVars
    /\ UNCHANGED nonEditVars

ValidateNext ==
    \E operation \in {"create", "update"}, missing \in {"", "id", "trackId", "name"},
       type \in {"", "video", "text", "bogus"},
       start \in {Undefined, Num(0 - 1), Num(0), NaN, Infinity},
       duration \in {Undefined, Num(0), Num(1), NaN, Infinity},
       k \in 0..MaxParamsCase :
        CallValidateClip([id |-> IF missing = "id" THEN "" ELSE "c_1",
                          trackId |-> IF missing = "trackId" THEN "" ELSE "t_d1",
                          name |-> IF missing = "name" THEN "" ELSE "clip",
                          type |-> type, start |-> start, duration |-> duration,
                          hasParams |-> k # 0, params |-> ParamsCase(k)],
                         operation)

ValidateSpec == ExportInit /\ [][ValidateNext]_vars

(* C34: validateClip throws a ValidationError exactly when, on create, one   *)
(* of id, trackId, type and name is missing, or start is negative or not     *)
(* finite, or duration is <= 0 or not finite, or type is not one of video,   *)
(* audio, picture, dialogue and text, or params has a volume outside [0, 2], *)
(* an opacity outside [0, 1] or a speed outside (0, 4]; otherwise it returns.*)
C34_ValidateClipExact ==
    op.name = "validateClip" =>
        LET clip == op.arg.clip
            Outside(x, lo, hi) == x[1] = "num" /\ (x[2] < lo \/ x[2] > hi)
        IN  (op.before # "") <=>
              \/ /\ op.arg.operation = "create"
                 /\ "" \in {clip.id, clip.trackId, clip.type, clip.name}
              \/ clip.start \notin {Undefined, Num(0)}
              \/ clip.duration \notin {Undefined, Num(1)}
              \/ clip.type \notin validTypes \cup {""}
              \/ /\ clip.hasParams
                 /\ \/ Outside(clip.params.volume, 0, 2 * Unity)
                    \/ Outside(clip.params.opacity, 0, Unity)
                    \/ Outside(clip.params.speed, 1, 4 * Unity)

----------------------------------------------------------------------------
(* C35: once a preview tick has run, no clip of a muted track has an active  *)
(* playback handle: the tick after a track is muted tears down the handles   *)
(* of the track's clips that are sounding.                                   *)
C35_MutedTornDown ==
    [][ (\E d \in Deltas01, n \in BOOLEAN : animate(d, n))
          => \A i \in 1..Len(clips') :
                Find(tracks', clips'[i].trackId).mute
                   => /\ nodes'[clips'[i].id] = NoId
                      /\ \A s \in playing' : s.clipId # clips'[i].id ]_vars

----------------------------------------------------------------------------
(* The animation loop with its clock.  The clock counts frame intervals and  *)
(* the playhead is counted in the same unit; a callback of the loop runs     *)
(* one interval after the callback before it, and while an export is under   *)
(* way no callback runs and the clock goes on.                               *)

MaxClock == 5

\* animate(timestamp) one frame interval after the last callback: while playing, the
\* playhead advances by the time since lastTimeRef, which is then set to the
\* timestamp; a paused callback clears lastTimeRef; the frame is rendered
animateAt(nearStart) ==
    LET timestamp == now + 1
        last == IF lastTime = 0 THEN timestamp ELSE lastTime
        delta == timestamp - last
        newTime == IF ~isExporting /\ isPlaying
                   THEN IF currentTime + delta > ProjectDuration THEN 0
                        ELSE currentTime + delta
                   ELSE currentTime
    IN  /\ frameRequested
        /\ now < MaxClock
        /\ now' = timestamp
        /\ lastTime' = IF ~isExporting /\ isPlaying THEN timestamp
                       ELSE IF ~isPlaying /\ ~isExporting THEN 0
                       ELSE lastTime
        /\ currentTime' = newTime
        /\ renderFrame(newTime, nearStart)
        /\ op' = Idle
        /\ UNCHANGED <<tracks, clips, selectedClipId, dragging, nextId, takeVars,
                       engine, isPlaying, recVars, rippleMode,
                       isExporting, frameRequested, loaded, exportRun>>

\* a frame interval passes while the loop is stopped
TimePasses ==
    /\ ~frameRequested
    /\ now < MaxClock
    /\ now' = now + 1
    /\ op' = Idle
    /\ UNCHANGED <<editVars, takeVars, engineVars, rippleMode,
                   isExporting, frameRequested, loaded, exportRun, lastTime>>

ClockNext ==
    \/ \E d \in 1..MaxTime, f \in FpsValues : exportVideo(d, f)
    \/ \E ok \in BOOLEAN : loadDone(ok)
    \/ compositeFrame
    \/ captureFrame
    \/ \E ok \in BOOLEAN : encodeDone(ok)
    \/ \E ok \in BOOLEAN : exportSubtitlesDone(ok)
    \/ \E ok \in BOOLEAN : exportAudioStemDone(ok)
    \/ handleTogglePlay
    \/ \E n \in BOOLEAN : animateAt(n)
    \/ TimePasses

ClockSpec == ExportInit /\ [][ClockNext]_vars

(* C36: the playhead only advances by time that elapsed while the transport  *)
(* was playing and no export was active: a callback of the loop leaves the   *)
(* playhead alone or, while playing, moves it on by the frame interval since *)
(* the callback before it (back to 0 past the end), also when it is the      *)
(* first after a pause or after an export.                                   *)
C36_AdvanceByPlayedTime ==
    [][ (frameRequested /\ now' # now)
          => \/ currentTime' = currentTime
             \/ /\ isPlaying
                /\ currentTime' = IF currentTime + 1 > ProjectDuration THEN 0
                                  ELSE currentTime + 1 ]_vars

----------------------------------------------------------------------------
(* The export with the steps that are bound to happen: every promise the     *)
(* export awaits settles, so a step of the export that can be taken is taken *)
(* in the end.                                                               *)

\* a 'progress' event of FFmpeg while ffmpeg.exec runs: the handler set in load
\* reports progress * 100
ffmpegProgress(q) ==
    /\ exportRun.phase = "frames"
    /\ Len(exportRun.frames) = TotalFrames(exportRun.duration, exportRun.fps)
    /\ exportRun' = [exportRun EXCEPT !.progress = <<q * 25, 1>>]
    /\ op' = Idle
    /\ UNCHANGED <<editVars, takeVars, engineVars, rippleMode, clockVars,
                   isExporting, frameRequested, loaded>>

\* rendering a clip into a frame, or capturing the frame, throws: the page's catch
\* reports the failure
frameFailed ==
    /\ exportRun.phase = "frames"
    /\ Len(exportRun.frames) < TotalFrames(exportRun.duration, exportRun.fps)
    /\ ExportFinished([exportRun EXCEPT !.video = "failed"])
    /\ op' = Idle
    /\ UNCHANGED <<editVars, takeVars, engineVars, rippleMode, clockVars, loaded>>

ExportLiveNext ==
    \/ ExportNext
    \/ \E q \in 0..4 : ffmpegProgress(q)
    \/ frameFailed

ExportLiveSpec ==
    /\ ExportInit
    /\ [][ExportLiveNext]_vars
    /\ WF_vars(\E ok \in BOOLEAN : loadDone(ok))
    /\ WF_vars(compositeFrame)
    /\ WF_vars(captureFrame)
    /\ WF_vars(\E ok \in BOOLEAN : encodeDone(ok))
    /\ WF_vars(\E ok \in BOOLEAN : exportSubtitlesDone(ok))
    /\ WF_vars(\E ok \in BOOLEAN : exportAudioStemDone(ok))

(* C37: every export action that starts, whether it succeeds or fails at any *)
(* step, eventually clears the exporting flag and resets the progress to 0,  *)
(* and the preview loop has a frame requested again.                         *)
C37_ExportEnds ==
    isExporting ~> (~isExporting /\ exportRun.progress = <<0, 1>> /\ frameRequested)

\* an export whose encoding failed after its frames were captured has ended
C37_Witness ==
    /\ exportRun.phase = "done" /\ exportRun.video = "failed"
    /\ Len(exportRun.frames) > 0
    /\ ~isExporting /\ exportRun.progress = <<0, 1>> /\ frameRequested

----------------------------------------------------------------------------
(* C38: the take a recording produces is appended to, and made active on,    *)
(* the clip on which the recording was started, also when the selection      *)
(* changed between the start and the stop, and no other clip is modified.    *)
C38_TakeOnRecordedClip ==
    [][ \A p \in pending \ pending' :
           p.source = "recording"
              => clips' = AppendTake(clips, p.startedOn, NewTake(nextId + 1, p.duration)) ]_vars

----------------------------------------------------------------------------
(* C39: in the refactored engine the end-of-playback notification of a       *)
(* source that was stopped or replaced never tears down the handle of a      *)
(* newer source registered for the same clip id: handling the notification  *)
(* of a source that is not the one in the map leaves the map's entry and    *)
(* its playing source alone.                                                 *)
C39_StaleEndKeepsHandle ==
    [][ \A s \in ended \ ended' :
           nodes[s.clipId] # s.h
              => /\ nodes'[s.clipId] = nodes[s.clipId]
                 /\ \A t \in playing : t.clipId = s.clipId => t \in playing' ]_vars

====
